---- MODULE Spec2Model ----
(***************************************************************************)
(* Wallpaper Symmetry Lab: the proof state machine and the navigation /    *)
(* history controller of App.tsx, with the patch sampler and the three     *)
(* transforms of utils/imageTools.ts.                                       *)
(*                                                                         *)
(* Conventions                                                             *)
(*  - Lengths and coordinates are fixed-point numbers in tenths of a pixel *)
(*    (Scale = 10), so that size / 2, minDim * 0.2 and line midpoints are   *)
(*    exact.  Image widths and heights are whole pixels.                    *)
(*  - The glide distance fraction is kept in hundredths (0.5 is 50); a      *)
(*    slide in pixels is kept in units of 1/2000 pixel (SlideUnit).          *)
(*  - A pixel buffer (ImageData) is represented by the inputs that          *)
(*    determine its content: the image, the crop window and the transform   *)
(*    drawn into it.                                                        *)
(*  - A handler is an operator from the controller state (a record of the   *)
(*    React state values) to the state after the handler's queued updates;  *)
(*    an action applies the handler and then the component's effects until  *)
(*    nothing changes (React commits the render and runs the effects before *)
(*    the next event is handled).                                           *)
(*  - A 2D drawing context is always obtained (getContext('2d') on a        *)
(*    canvas the code has just created).                                    *)
(*                                                                         *)
(* Specifications                                                          *)
(*  - Spec: the whole session on a 300 x 200 image.                         *)
(*  - ProofSpec: the proof handlers alone, from a selected answer, on       *)
(*    images of several sizes and with more pointer positions and sizes.    *)
(*  - UnsizedSpec: the whole session when an image may also load with       *)
(*    naturalWidth = naturalHeight = 0.                                     *)
(*  - ReloadSpec: the whole session when a second image of another size    *)
(*    may be uploaded.                                                      *)
(***************************************************************************)
EXTENDS Integers, Sequences, FiniteSets, TLC

VARIABLES image, currentNodeId, selectedAnswerKey, proofState, history,
          draftStore, unitCell, edits

vars == <<image, currentNodeId, selectedAnswerKey, proofState, history,
          draftStore, unitCell, edits>>

(***************************************************************************)
(* Primitive values                                                        *)
(***************************************************************************)

\* JavaScript null, for the nullable object fields (center, line, before, ...).
Null == [null |-> TRUE]

\* selectedAnswerKey === null
NullKey == "null"

\* image.element === null
NoElement == "null"

Scale == 10

Px(n) == n * Scale

PATCH_SIZE == 280

Min2(a, b) == IF a <= b THEN a ELSE b

Max2(a, b) == IF a >= b THEN a ELSE b

\* Math.round on a fixed-point number: the nearest whole pixel, halves go up.
Round(v) == ((v + (Scale \div 2)) \div Scale) * Scale

\* Math.max(min, Math.min(max, value))
clamp(value, min, max) == Max2(min, Min2(max, value))

\* An empty object {} used as a map.
EmptyMap == [k \in {} |-> Null]

\* { ...m, [k]: v }
Put(m, k, v) == [x \in (DOMAIN m) \cup {k} |-> IF x = k THEN v ELSE m[x]]

\* m[k] ?? d
GetOr(m, k, d) == IF k \in DOMAIN m THEN m[k] ELSE d

(***************************************************************************)
(* The decision tree and the inputs                                        *)
(***************************************************************************)

\* A tree with every proof type, an answer-level override, a node default, an
\* answer that resolves to none by each route, and leaves.
decisionTree ==
  [start |-> "q1",
   nodes |->
     [q1 |-> [id |-> "q1", type |-> "question", proofType |-> "rotation",
              needsUnitCell |-> FALSE,
              answers |-> << [key |-> "yes", next |-> "q2", rotationAngleDeg |-> 90],
                             [key |-> "no", next |-> "q2", proofType |-> "none"] >>],
      q2 |-> [id |-> "q2", type |-> "question",
              needsUnitCell |-> TRUE,
              answers |-> << [key |-> "mirror", next |-> "leafM", proofType |-> "mirror"],
                             [key |-> "glide", next |-> "leafG", proofType |-> "glide"],
                             [key |-> "neither", next |-> "leafN"] >>],
      leafM |-> [id |-> "leafM", type |-> "leaf", groupCode |-> "pm"],
      leafG |-> [id |-> "leafG", type |-> "leaf", groupCode |-> "pg"],
      leafN |-> [id |-> "leafN", type |-> "leaf", groupCode |-> "p1"]]]

NodeIds == DOMAIN decisionTree.nodes

\* Answer keys a caller may pass: every key of the tree and one no node has.
AnswerKeys == {"yes", "no", "mirror", "glide", "neither", "bogus"}

\* The images a file upload can load: element, naturalWidth, naturalHeight.
Images == { [element |-> "imgA", width |-> 300, height |-> 200] }

\* An image that has loaded without intrinsic dimensions: naturalWidth and
\* naturalHeight are 0.
UnsizedImage == [element |-> "imgZ", width |-> 0, height |-> 0]

initialImageState == [element |-> NoElement, width |-> 0, height |-> 0]

\* Corners in hundredths of the image's width and height.
defaultUnitCell ==
  [A |-> [x |-> 15, y |-> 15], B |-> [x |-> 45, y |-> 15],
   C |-> [x |-> 20, y |-> 45], D |-> [x |-> 50, y |-> 45]]

\* Pointer positions for a rotation center (image space, tenths of a pixel):
\* one near a corner, where the crop is clamped, and one in the middle.
Points == { [x |-> Px(10), y |-> Px(10)], [x |-> Px(150), y |-> Px(100)] }

\* Axis lines: a horizontal one and a diagonal one.
Lines == { [x1 |-> Px(100), y1 |-> Px(100), x2 |-> Px(200), y2 |-> Px(100)],
           [x1 |-> Px(20), y1 |-> Px(20), x2 |-> Px(60), y2 |-> Px(60)] }

\* Patch sizes a caller may ask for: one below the lower limit, which is clamped.
PatchSizes == { Px(10) }

\* Positions of the glide slider, in hundredths (its step is 0.02); the range
\* of the slider decides whether it can send them.
GlideValues == { 150 }

\* Repeat counts a caller may pass.
RepeatValues == { 0, 3 }

(***************************************************************************)
(* utils/imageTools.ts                                                     *)
(***************************************************************************)

\* The canvas calls, in the order the code makes them; a buffer is the side of
\* its square canvas and the calls drawn into it.
Translate(x, y) == [op |-> "translate", x |-> x, y |-> y]

\* ctx.rotate((angleDeg * Math.PI) / 180)
RotateDeg(deg) == [op |-> "rotate", deg |-> deg]

\* ctx.rotate(sign * Math.atan2(dy, dx))
RotateAtan2(sign, dy, dx) == [op |-> "rotateAtan2", sign |-> sign, dy |-> dy, dx |-> dx]

ScaleBy(x, y) == [op |-> "scale", x |-> x, y |-> y]

\* ctx.drawImage(image, x, y): the whole image with its top-left at (x, y).
DrawImage(img, x, y) == [op |-> "drawImage", img |-> img.element, x |-> x, y |-> y]

\* ctx.drawImage(image, sx, sy, s, s, 0, 0, s, s): the crop window of a patch.
DrawCrop(img, sx, sy, s) == [op |-> "drawCrop", img |-> img.element, x |-> sx, y |-> sy, size |-> s]

\* ctx.getImageData(0, 0, size, size) after the calls.
ImageData(size, calls) == [size |-> size, calls |-> calls]

\* samplePatch that clamps the crop's start to the image, not to the last
\* start that keeps the whole crop inside it.
samplePatchStartInImage(img, center, size) ==
  LET availableWidth == Px(img.width)
      availableHeight == Px(img.height)
      sampleSize == Min2(size, Min2(availableWidth, availableHeight))
      half == sampleSize \div 2
      startX == clamp(Round(center.x - half), 0, availableWidth)
      startY == clamp(Round(center.y - half), 0, availableHeight)
  IN  IF availableWidth = 0 \/ availableHeight = 0
      THEN Null
      ELSE [data |-> ImageData(sampleSize, << DrawCrop(img, startX, startY, sampleSize) >>),
            origin |-> [x |-> startX, y |-> startY],
            relativeCenter |-> [x |-> center.x - startX, y |-> center.y - startY],
            size |-> sampleSize]

samplePatch(img, center, size) ==
  LET availableWidth == Px(img.width)
      availableHeight == Px(img.height)
      sampleSize == Min2(size, Min2(availableWidth, availableHeight))
      half == sampleSize \div 2
      startX == clamp(Round(center.x - half), 0, Max2(0, availableWidth - sampleSize))
      startY == clamp(Round(center.y - half), 0, Max2(0, availableHeight - sampleSize))
  IN  IF availableWidth = 0 \/ availableHeight = 0
      THEN Null
      ELSE [data |-> ImageData(sampleSize, << DrawCrop(img, startX, startY, sampleSize) >>),
            origin |-> [x |-> startX, y |-> startY],
            relativeCenter |-> [x |-> center.x - startX, y |-> center.y - startY],
            size |-> sampleSize]

\* rotatePatch that draws the image at the canvas's corner, not at -origin.
rotatePatchDrawsAtCorner(sample, angleDeg, img) ==
  ImageData(sample.size,
    << Translate(sample.relativeCenter.x, sample.relativeCenter.y),
       RotateDeg(angleDeg),
       Translate(-sample.relativeCenter.x, -sample.relativeCenter.y),
       DrawImage(img, 0, 0) >>)

rotatePatch(sample, angleDeg, img) ==
  ImageData(sample.size,
    << Translate(sample.relativeCenter.x, sample.relativeCenter.y),
       RotateDeg(angleDeg),
       Translate(-sample.relativeCenter.x, -sample.relativeCenter.y),
       DrawImage(img, -sample.origin.x, -sample.origin.y) >>)

relativeLine(sample, line) ==
  [x1 |-> line.x1 - sample.origin.x, y1 |-> line.y1 - sample.origin.y,
   x2 |-> line.x2 - sample.origin.x, y2 |-> line.y2 - sample.origin.y]

\* reflectPatch that translates back by the line's second point, not its first.
reflectPatchBackToSecondPoint(sample, line, img) ==
  LET rl == relativeLine(sample, line)
  IN  ImageData(sample.size,
        << Translate(rl.x1, rl.y1),
           RotateAtan2(1, rl.y2 - rl.y1, rl.x2 - rl.x1),
           ScaleBy(1, -1),
           RotateAtan2(-1, rl.y2 - rl.y1, rl.x2 - rl.x1),
           Translate(-rl.x2, -rl.y2),
           DrawImage(img, -sample.origin.x, -sample.origin.y) >>)

reflectPatch(sample, line, img) ==
  LET rl == relativeLine(sample, line)
  IN  ImageData(sample.size,
        << Translate(rl.x1, rl.y1),
           RotateAtan2(1, rl.y2 - rl.y1, rl.x2 - rl.x1),
           ScaleBy(1, -1),
           RotateAtan2(-1, rl.y2 - rl.y1, rl.x2 - rl.x1),
           Translate(-rl.x1, -rl.y1),
           DrawImage(img, -sample.origin.x, -sample.origin.y) >>)

\* distance is the slide in units of 1/SlideUnit pixel.
SlideUnit == 2000

\* ctx.translate(distance, 0) of glidePatch: distance is in units of
\* 1/SlideUnit pixel, which the call records.
Slide(distance) == [op |-> "translate", x |-> distance, y |-> 0, per |-> SlideUnit]

\* glidePatch that flips along the axis, scale(-1, 1), not across it.
glidePatchFlipsAlongAxis(sample, line, distance, img) ==
  LET rl == relativeLine(sample, line)
  IN  ImageData(sample.size,
        << Translate(rl.x1, rl.y1),
           RotateAtan2(1, rl.y2 - rl.y1, rl.x2 - rl.x1),
           ScaleBy(-1, 1),
           Slide(distance),
           RotateAtan2(-1, rl.y2 - rl.y1, rl.x2 - rl.x1),
           Translate(-rl.x1, -rl.y1),
           DrawImage(img, -sample.origin.x, -sample.origin.y) >>)

glidePatch(sample, line, distance, img) ==
  LET rl == relativeLine(sample, line)
  IN  ImageData(sample.size,
        << Translate(rl.x1, rl.y1),
           RotateAtan2(1, rl.y2 - rl.y1, rl.x2 - rl.x1),
           ScaleBy(1, -1),
           Slide(distance),
           RotateAtan2(-1, rl.y2 - rl.y1, rl.x2 - rl.x1),
           Translate(-rl.x1, -rl.y1),
           DrawImage(img, -sample.origin.x, -sample.origin.y) >>)

(***************************************************************************)
(* App.tsx: proof states                                                   *)
(***************************************************************************)

\* An optional number: {} is undefined, {n} is n.
Undefined == {}

\* answers.find((candidate) => candidate.key === key); Null when none matches.
FindAnswer(node, key) ==
  LET hits == { i \in 1..Len(node.answers) : node.answers[i].key = key }
  IN  IF hits = {} THEN Null
      ELSE node.answers[CHOOSE i \in hits : \A j \in hits : i <= j]

\* resolveProofRequirements that lets the node's proof type win over the
\* answer's.
resolveProofRequirementsNodeFirst(node, answer) ==
  [type |-> IF "proofType" \in DOMAIN node THEN node.proofType
            ELSE IF "proofType" \in DOMAIN answer THEN answer.proofType
            ELSE "none",
   rotationAngleDeg |-> IF "rotationAngleDeg" \in DOMAIN answer
                        THEN {answer.rotationAngleDeg} ELSE Undefined]

resolveProofRequirements(node, answer) ==
  [type |-> IF "proofType" \in DOMAIN answer THEN answer.proofType
            ELSE IF "proofType" \in DOMAIN node THEN node.proofType
            ELSE "none",
   rotationAngleDeg |-> IF "rotationAngleDeg" \in DOMAIN answer
                        THEN {answer.rotationAngleDeg} ELSE Undefined]

createProofState(type, rotationAngleDeg) ==
  LET base == [ready |-> (type = "none"), before |-> Null, after |-> Null,
               patchSize |-> Px(PATCH_SIZE), patchSample |-> Null]
  IN  CASE type = "rotation" ->
             [type |-> "rotation", ready |-> base.ready, before |-> base.before,
              after |-> base.after, patchSize |-> base.patchSize,
              patchSample |-> base.patchSample,
              center |-> Null,
              angleDeg |-> IF rotationAngleDeg = Undefined THEN 180
                           ELSE CHOOSE a \in rotationAngleDeg : TRUE,
              repeats |-> 1]
        [] type = "mirror" ->
             [type |-> "mirror", ready |-> base.ready, before |-> base.before,
              after |-> base.after, patchSize |-> base.patchSize,
              patchSample |-> base.patchSample,
              line |-> Null]
        [] type = "glide" ->
             [type |-> "glide", ready |-> base.ready, before |-> base.before,
              after |-> base.after, patchSize |-> base.patchSize,
              patchSample |-> base.patchSample,
              line |-> Null,
              distance |-> 50]
        [] OTHER ->
             [type |-> "none", ready |-> base.ready, before |-> base.before,
              after |-> base.after, patchSize |-> base.patchSize,
              patchSample |-> base.patchSample]

(***************************************************************************)
(* App.tsx: the controller state and its handlers                          *)
(***************************************************************************)

\* The React state of App as one value.
St == [image |-> image, currentNodeId |-> currentNodeId,
       selectedAnswerKey |-> selectedAnswerKey, proofState |-> proofState,
       history |-> history, draftStore |-> draftStore, unitCell |-> unitCell]

\* decisionTree.nodes[currentNodeId] ?? null
currentNode(s) ==
  IF s.currentNodeId \in NodeIds THEN decisionTree.nodes[s.currentNodeId] ELSE Null

IsQuestion(node) == "type" \in DOMAIN node /\ node.type = "question"

imageReady(s) == s.image.element # NoElement

\* In tenths of a pixel.
patchSizeLimits(img) ==
  IF img.element = NoElement \/ img.width = 0 \/ img.height = 0
  THEN [min |-> Px(60), max |-> Px(600)]
  ELSE LET minDim == Px(Min2(img.width, img.height))
           max == Max2(Px(80), minDim)
           min == Max2(Px(40), Min2(max - Px(20), (minDim * 2) \div 10))
       IN  [min |-> min, max |-> max]

\* img.onload of handleFileChange: a new image has been decoded.
imageOnload(s, img) ==
  [s EXCEPT !.image = img,
            !.currentNodeId = decisionTree.start,
            !.selectedAnswerKey = NullKey,
            !.history = << >>,
            !.proofState = createProofState("none", Undefined),
            !.unitCell = defaultUnitCell]

\* handleRestart without setDraftStore({}), as img.onload resets the session.
handleRestartKeepsDrafts(s) ==
  [s EXCEPT !.currentNodeId = decisionTree.start,
            !.selectedAnswerKey = NullKey,
            !.history = << >>,
            !.proofState = createProofState("none", Undefined),
            !.unitCell = defaultUnitCell]

handleRestart(s) ==
  [s EXCEPT !.currentNodeId = decisionTree.start,
            !.selectedAnswerKey = NullKey,
            !.history = << >>,
            !.proofState = createProofState("none", Undefined),
            !.draftStore = EmptyMap,
            !.unitCell = defaultUnitCell]

\* handleSelectAnswer without the draft lookup: every selection starts afresh.
handleSelectAnswerFresh(s, answerKey) ==
  LET node == currentNode(s)
      answer == FindAnswer(node, answerKey)
      req == resolveProofRequirements(node, answer)
  IN  IF ~imageReady(s) THEN s
      ELSE IF ~IsQuestion(node) THEN s
      ELSE IF answer = Null THEN s
      ELSE [s EXCEPT !.selectedAnswerKey = answerKey,
                     !.proofState = createProofState(req.type, req.rotationAngleDeg)]

handleSelectAnswer(s, answerKey) ==
  LET node == currentNode(s)
      answer == FindAnswer(node, answerKey)
      req == resolveProofRequirements(node, answer)
      draftsForNode == GetOr(s.draftStore, s.currentNodeId, EmptyMap)
      newProofState == IF answerKey \in DOMAIN draftsForNode
                       THEN draftsForNode[answerKey]
                       ELSE createProofState(req.type, req.rotationAngleDeg)
  IN  IF ~imageReady(s) THEN s
      ELSE IF ~IsQuestion(node) THEN s
      ELSE IF answer = Null THEN s
      ELSE [s EXCEPT !.selectedAnswerKey = answerKey, !.proofState = newProofState]

\* handleResetProof that initializes without the answer's rotation angle.
handleResetProofDropsOverride(s) ==
  LET node == currentNode(s)
      answer == FindAnswer(node, s.selectedAnswerKey)
      req == resolveProofRequirements(node, answer)
  IN  IF ~IsQuestion(node) \/ s.selectedAnswerKey = NullKey THEN s
      ELSE IF answer = Null THEN s
      ELSE [s EXCEPT !.proofState = createProofState(req.type, Undefined)]

handleResetProof(s) ==
  LET node == currentNode(s)
      answer == FindAnswer(node, s.selectedAnswerKey)
      req == resolveProofRequirements(node, answer)
  IN  IF ~IsQuestion(node) \/ s.selectedAnswerKey = NullKey THEN s
      ELSE IF answer = Null THEN s
      ELSE [s EXCEPT !.proofState = createProofState(req.type, req.rotationAngleDeg)]

\* handleRotationPick that stores the buffers and the center without the
\* patch sample they were computed from.
handleRotationPickDropsSample(s, point) ==
  LET prev == s.proofState
      patch == samplePatch(s.image, point, prev.patchSize)
  IN  IF ~imageReady(s) THEN s
      ELSE IF prev.type # "rotation" THEN s
      ELSE IF patch = Null THEN s
      ELSE [s EXCEPT !.proofState =
             [prev EXCEPT !.before = patch.data,
                          !.after = rotatePatch(patch, prev.angleDeg * prev.repeats, s.image),
                          !.center = point,
                          !.ready = TRUE]]

handleRotationPick(s, point) ==
  LET prev == s.proofState
      patch == samplePatch(s.image, point, prev.patchSize)
  IN  IF ~imageReady(s) THEN s
      ELSE IF prev.type # "rotation" THEN s
      ELSE IF patch = Null THEN s
      ELSE [s EXCEPT !.proofState =
             [prev EXCEPT !.before = patch.data,
                          !.after = rotatePatch(patch, prev.angleDeg * prev.repeats, s.image),
                          !.center = point,
                          !.patchSample = patch,
                          !.ready = TRUE]]

midPoint(line) == [x |-> (line.x1 + line.x2) \div 2, y |-> (line.y1 + line.y2) \div 2]

\* captureLine with ready set to isFinal, so that a drag in progress turns it off.
captureLineReadyIsFinal(s, line, kind, isFinal) ==
  LET prev == s.proofState
      patch == samplePatch(s.image, midPoint(line), prev.patchSize)
  IN  IF ~imageReady(s) \/ patch = Null THEN s
      ELSE IF kind = "mirror" /\ prev.type = "mirror" THEN
        [s EXCEPT !.proofState =
          [prev EXCEPT !.before = patch.data,
                       !.after = reflectPatch(patch, line, s.image),
                       !.line = line,
                       !.patchSample = patch,
                       !.ready = isFinal]]
      ELSE IF kind = "glide" /\ prev.type = "glide" THEN
        [s EXCEPT !.proofState =
          [prev EXCEPT !.before = patch.data,
                       !.after = glidePatch(patch, line, prev.distance * patch.size, s.image),
                       !.line = line,
                       !.patchSample = patch,
                       !.ready = isFinal]]
      ELSE s

\* captureLine that sets ready on every call, final or not.
captureLineAlwaysReady(s, line, kind, isFinal) ==
  LET prev == s.proofState
      patch == samplePatch(s.image, midPoint(line), prev.patchSize)
  IN  IF ~imageReady(s) \/ patch = Null THEN s
      ELSE IF kind = "mirror" /\ prev.type = "mirror" THEN
        [s EXCEPT !.proofState =
          [prev EXCEPT !.before = patch.data,
                       !.after = reflectPatch(patch, line, s.image),
                       !.line = line,
                       !.patchSample = patch,
                       !.ready = TRUE]]
      ELSE IF kind = "glide" /\ prev.type = "glide" THEN
        [s EXCEPT !.proofState =
          [prev EXCEPT !.before = patch.data,
                       !.after = glidePatch(patch, line, prev.distance * patch.size, s.image),
                       !.line = line,
                       !.patchSample = patch,
                       !.ready = TRUE]]
      ELSE s

captureLine(s, line, kind, isFinal) ==
  LET prev == s.proofState
      patch == samplePatch(s.image, midPoint(line), prev.patchSize)
  IN  IF ~imageReady(s) THEN s
      ELSE IF kind = "mirror" /\ prev.type = "mirror" THEN
        IF patch = Null THEN s
        ELSE [s EXCEPT !.proofState =
               [prev EXCEPT !.before = patch.data,
                            !.after = reflectPatch(patch, line, s.image),
                            !.line = line,
                            !.patchSample = patch,
                            !.ready = IF isFinal THEN TRUE ELSE prev.ready]]
      ELSE IF kind = "glide" /\ prev.type = "glide" THEN
        IF patch = Null THEN s
        ELSE LET distancePx == prev.distance * patch.size
             IN  [s EXCEPT !.proofState =
                   [prev EXCEPT !.before = patch.data,
                                !.after = glidePatch(patch, line, distancePx, s.image),
                                !.line = line,
                                !.patchSample = patch,
                                !.ready = IF isFinal THEN TRUE ELSE prev.ready]]
      ELSE s

handleMirrorLine(s, line) == captureLine(s, line, "mirror", TRUE)

handleGlideLine(s, line) == captureLine(s, line, "glide", TRUE)

handleDraftLine(s, line, kind) == captureLine(s, line, kind, FALSE)

\* Math.max(image.width, image.height) pixels, as a slide per hundredth of fraction.
baseLength(img) == Max2(img.width, img.height) * (SlideUnit \div 100)

\* handleGlideDistanceChange that stores the slider value also when there is
\* no line or patch to recompute from.
handleGlideDistanceChangeAlwaysStores(s, value) ==
  LET prev == s.proofState
  IN  IF ~imageReady(s) THEN s
      ELSE IF prev.type # "glide" THEN s
      ELSE IF prev.patchSample = Null \/ prev.line = Null
        THEN [s EXCEPT !.proofState = [prev EXCEPT !.distance = value]]
      ELSE [s EXCEPT !.proofState =
             [prev EXCEPT !.distance = value,
                          !.after = glidePatch(prev.patchSample, prev.line,
                                               value * baseLength(s.image), s.image)]]

\* handleGlideDistanceChange that converts the fraction with the patch's
\* half-size, as captureLine does.
handleGlideDistanceChangeHalfPatch(s, value) ==
  LET prev == s.proofState
  IN  IF ~imageReady(s) THEN s
      ELSE IF prev.type # "glide" THEN s
      ELSE IF prev.patchSample = Null \/ prev.line = Null THEN s
      ELSE [s EXCEPT !.proofState =
             [prev EXCEPT !.distance = value,
                          !.after = glidePatch(prev.patchSample, prev.line,
                                               value * prev.patchSample.size, s.image)]]

handleGlideDistanceChange(s, value) ==
  LET prev == s.proofState
  IN  IF ~imageReady(s) THEN s
      ELSE IF prev.type # "glide" THEN s
      ELSE IF prev.patchSample = Null \/ prev.line = Null THEN s
      ELSE LET distancePx == value * baseLength(s.image)
           IN  [s EXCEPT !.proofState =
                 [prev EXCEPT !.distance = value,
                              !.after = glidePatch(prev.patchSample, prev.line, distancePx, s.image)]]

\* resizePatch that returns prev when there is no center or line to resample at.
resizePatchNoOpWithoutInput(s, prev, size) ==
  LET sized == [prev EXCEPT !.patchSize = size]
  IN  IF ~imageReady(s) THEN sized
      ELSE IF prev.type = "rotation" /\ prev.center # Null THEN
        LET patch == samplePatch(s.image, prev.center, size)
        IN  IF patch = Null THEN sized
            ELSE [prev EXCEPT !.before = patch.data,
                              !.after = rotatePatch(patch, prev.angleDeg * prev.repeats, s.image),
                              !.patchSample = patch,
                              !.patchSize = size]
      ELSE IF prev.type \in {"mirror", "glide"} /\ prev.line # Null THEN
        LET patch == samplePatch(s.image, midPoint(prev.line), size)
        IN  IF patch = Null THEN sized
            ELSE IF prev.type = "mirror" THEN
              [prev EXCEPT !.before = patch.data,
                           !.after = reflectPatch(patch, prev.line, s.image),
                           !.patchSample = patch,
                           !.patchSize = size]
            ELSE [prev EXCEPT !.before = patch.data,
                              !.after = glidePatch(patch, prev.line,
                                                   prev.distance * baseLength(s.image), s.image),
                              !.patchSample = patch,
                              !.patchSize = size]
      ELSE prev

resizePatch(s, prev, size) ==
  LET sized == [prev EXCEPT !.patchSize = size]
  IN  IF ~imageReady(s) THEN sized
      ELSE IF prev.type = "rotation" /\ prev.center # Null THEN
        LET patch == samplePatch(s.image, prev.center, size)
        IN  IF patch = Null THEN sized
            ELSE [prev EXCEPT !.before = patch.data,
                              !.after = rotatePatch(patch, prev.angleDeg * prev.repeats, s.image),
                              !.patchSample = patch,
                              !.patchSize = size]
      ELSE IF prev.type \in {"mirror", "glide"} /\ prev.line # Null THEN
        LET patch == samplePatch(s.image, midPoint(prev.line), size)
        IN  IF patch = Null THEN sized
            ELSE IF prev.type = "mirror" THEN
              [prev EXCEPT !.before = patch.data,
                           !.after = reflectPatch(patch, prev.line, s.image),
                           !.patchSample = patch,
                           !.patchSize = size]
            ELSE LET distancePx == prev.distance * baseLength(s.image)
                 IN  [prev EXCEPT !.before = patch.data,
                                  !.after = glidePatch(patch, prev.line, distancePx, s.image),
                                  !.patchSample = patch,
                                  !.patchSize = size]
      ELSE sized

\* handlePatchSizeChange that passes the slider value on without clamping it.
handlePatchSizeChangeUnclamped(s, value) ==
  [s EXCEPT !.proofState = resizePatch(s, s.proofState, value)]

handlePatchSizeChange(s, value) ==
  LET limits == patchSizeLimits(s.image)
      clamped == Min2(Max2(value, limits.min), limits.max)
  IN  [s EXCEPT !.proofState = resizePatch(s, s.proofState, clamped)]

\* handleRotationRepeatChange that redraws the preview and does not store the
\* new repeat count.
handleRotationRepeatChangeKeepsRepeats(s, value) ==
  LET prev == s.proofState
      repeats == Max2(1, value)
  IN  IF ~imageReady(s) THEN s
      ELSE IF prev.type # "rotation" THEN s
      ELSE IF prev.center = Null \/ prev.patchSample = Null THEN s
      ELSE [s EXCEPT !.proofState =
             [prev EXCEPT !.after = rotatePatch(prev.patchSample, prev.angleDeg * repeats, s.image)]]

handleRotationRepeatChange(s, value) ==
  LET prev == s.proofState
      repeats == Max2(1, value)
  IN  IF ~imageReady(s) THEN s
      ELSE IF prev.type # "rotation" THEN s
      ELSE IF prev.center = Null \/ prev.patchSample = Null THEN s
      ELSE [s EXCEPT !.proofState =
             [prev EXCEPT !.repeats = repeats,
                          !.after = rotatePatch(prev.patchSample, prev.angleDeg * repeats, s.image)]]

\* handleChangeAnswer that also discards the draft of the answer it deselects.
handleChangeAnswerDropsDraft(s) ==
  LET bucket == GetOr(s.draftStore, s.currentNodeId, EmptyMap)
  IN  [s EXCEPT !.selectedAnswerKey = NullKey,
                !.proofState = createProofState("none", Undefined),
                !.draftStore =
                  IF s.selectedAnswerKey = NullKey THEN s.draftStore
                  ELSE Put(s.draftStore, s.currentNodeId,
                           [k \in (DOMAIN bucket) \ {s.selectedAnswerKey} |-> bucket[k]])]

handleChangeAnswer(s) ==
  [s EXCEPT !.selectedAnswerKey = NullKey,
            !.proofState = createProofState("none", Undefined)]

\* handleConfirmAnswer without the readiness test.
handleConfirmAnswerUngated(s) ==
  LET node == currentNode(s)
      answer == FindAnswer(node, s.selectedAnswerKey)
  IN  IF ~IsQuestion(node) THEN s
      ELSE IF s.selectedAnswerKey = NullKey THEN s
      ELSE IF answer = Null THEN s
      ELSE [s EXCEPT !.history = Append(s.history,
                                   [nodeId |-> node.id,
                                    selectedAnswerKey |-> s.selectedAnswerKey]),
                     !.currentNodeId = answer.next,
                     !.selectedAnswerKey = NullKey,
                     !.proofState = createProofState("none", Undefined),
                     !.draftStore = Put(s.draftStore, answer.next,
                                        GetOr(s.draftStore, answer.next, EmptyMap))]

\* handleConfirmAnswer that gives the destination node an empty bucket every time.
handleConfirmAnswerEmptiesBucket(s) ==
  LET node == currentNode(s)
      answer == FindAnswer(node, s.selectedAnswerKey)
  IN  IF ~IsQuestion(node) THEN s
      ELSE IF s.selectedAnswerKey = NullKey \/ ~s.proofState.ready THEN s
      ELSE IF answer = Null THEN s
      ELSE [s EXCEPT !.history = Append(s.history,
                                   [nodeId |-> node.id,
                                    selectedAnswerKey |-> s.selectedAnswerKey]),
                     !.currentNodeId = answer.next,
                     !.selectedAnswerKey = NullKey,
                     !.proofState = createProofState("none", Undefined),
                     !.draftStore = Put(s.draftStore, answer.next, EmptyMap)]

\* handleConfirmAnswer that records the node it moves to, not the node that
\* was answered.
handleConfirmAnswerRecordsNext(s) ==
  LET node == currentNode(s)
      answer == FindAnswer(node, s.selectedAnswerKey)
  IN  IF ~IsQuestion(node) THEN s
      ELSE IF s.selectedAnswerKey = NullKey \/ ~s.proofState.ready THEN s
      ELSE IF answer = Null THEN s
      ELSE [s EXCEPT !.history = Append(s.history,
                                   [nodeId |-> answer.next,
                                    selectedAnswerKey |-> s.selectedAnswerKey]),
                     !.currentNodeId = answer.next,
                     !.selectedAnswerKey = NullKey,
                     !.proofState = createProofState("none", Undefined),
                     !.draftStore = Put(s.draftStore, answer.next,
                                        GetOr(s.draftStore, answer.next, EmptyMap))]

\* handleConfirmAnswer without setSelectedAnswerKey(null).
handleConfirmAnswerKeepsSelection(s) ==
  LET node == currentNode(s)
      answer == FindAnswer(node, s.selectedAnswerKey)
  IN  IF ~IsQuestion(node) THEN s
      ELSE IF s.selectedAnswerKey = NullKey \/ ~s.proofState.ready THEN s
      ELSE IF answer = Null THEN s
      ELSE [s EXCEPT !.history = Append(s.history,
                                   [nodeId |-> node.id,
                                    selectedAnswerKey |-> s.selectedAnswerKey]),
                     !.currentNodeId = answer.next,
                     !.proofState = createProofState("none", Undefined),
                     !.draftStore = Put(s.draftStore, answer.next,
                                        GetOr(s.draftStore, answer.next, EmptyMap))]

handleConfirmAnswer(s) ==
  LET node == currentNode(s)
      answer == FindAnswer(node, s.selectedAnswerKey)
  IN  IF ~IsQuestion(node) THEN s
      ELSE IF s.selectedAnswerKey = NullKey \/ ~s.proofState.ready THEN s
      ELSE IF answer = Null THEN s
      ELSE [s EXCEPT !.history = Append(s.history,
                                   [nodeId |-> node.id,
                                    selectedAnswerKey |-> s.selectedAnswerKey]),
                     !.currentNodeId = answer.next,
                     !.selectedAnswerKey = NullKey,
                     !.proofState = createProofState("none", Undefined),
                     !.draftStore = Put(s.draftStore, answer.next,
                                        GetOr(s.draftStore, answer.next, EmptyMap))]

\* handleBack that rebuilds the proof state from the tree and ignores the draft.
handleBackFresh(s) ==
  IF Len(s.history) = 0 THEN s
  ELSE
    LET last == s.history[Len(s.history)]
        node == IF last.nodeId \in NodeIds THEN decisionTree.nodes[last.nodeId] ELSE Null
        req == resolveProofRequirements(node, FindAnswer(node, last.selectedAnswerKey))
    IN  [s EXCEPT !.history = SubSeq(s.history, 1, Len(s.history) - 1),
                  !.currentNodeId = last.nodeId,
                  !.selectedAnswerKey = last.selectedAnswerKey,
                  !.proofState =
                    IF IsQuestion(node) /\ last.selectedAnswerKey # NullKey
                    THEN createProofState(req.type, req.rotationAngleDeg)
                    ELSE createProofState("none", Undefined)]

handleBack(s) ==
  IF Len(s.history) = 0 THEN s
  ELSE
    LET last == s.history[Len(s.history)]
        nextHistory == SubSeq(s.history, 1, Len(s.history) - 1)
        node == IF last.nodeId \in NodeIds THEN decisionTree.nodes[last.nodeId] ELSE Null
        drafts == GetOr(s.draftStore, last.nodeId, EmptyMap)
        req == resolveProofRequirements(node, FindAnswer(node, last.selectedAnswerKey))
        restored ==
          IF IsQuestion(node) /\ last.selectedAnswerKey # NullKey
          THEN IF last.selectedAnswerKey \in DOMAIN drafts
               THEN drafts[last.selectedAnswerKey]
               ELSE createProofState(req.type, req.rotationAngleDeg)
          ELSE createProofState("none", Undefined)
    IN  [s EXCEPT !.history = nextHistory,
                  !.currentNodeId = last.nodeId,
                  !.selectedAnswerKey = last.selectedAnswerKey,
                  !.proofState = restored]

\* Math.min(Math.max(v, 0), 1) on a coordinate in hundredths.
Clamp01(v) == Min2(Max2(v, 0), 100)

\* handleUnitCellChange that bounds the coordinates from below only.
handleUnitCellChangeLowerBoundOnly(s, next) ==
  [s EXCEPT !.unitCell =
    [A |-> [x |-> Max2(next.A.x, 0), y |-> Max2(next.A.y, 0)],
     B |-> [x |-> Max2(next.B.x, 0), y |-> Max2(next.B.y, 0)],
     C |-> [x |-> Max2(next.C.x, 0), y |-> Max2(next.C.y, 0)],
     D |-> [x |-> Max2(next.D.x, 0), y |-> Max2(next.D.y, 0)]]]

handleUnitCellChange(s, next) ==
  [s EXCEPT !.unitCell =
    [A |-> [x |-> Clamp01(next.A.x), y |-> Clamp01(next.A.y)],
     B |-> [x |-> Clamp01(next.B.x), y |-> Clamp01(next.B.y)],
     C |-> [x |-> Clamp01(next.C.x), y |-> Clamp01(next.C.y)],
     D |-> [x |-> Clamp01(next.D.x), y |-> Clamp01(next.D.y)]]]

(***************************************************************************)
(* App.tsx: the effects that run after a render                            *)
(***************************************************************************)

\* An auto-confirm effect that never fires.
autoConfirmEffectOff(s) == s

\* The auto-confirm effect: it calls handleConfirmAnswer of the render it
\* belongs to.  React runs it when proofState.type, selectedAnswerKey or
\* currentNode has changed; its condition never holds in a state the effects
\* have left (an answer selected with a none proof state is confirmed at
\* once), so whenever it holds after a render one of the three has changed.
autoConfirmEffect(s) ==
  IF s.selectedAnswerKey # NullKey /\ s.proofState.type = "none"
     /\ IsQuestion(currentNode(s))
  THEN handleConfirmAnswer(s)
  ELSE s

\* A write-through effect that stores a proof only once it is ready.
draftWriteEffectWhenReady(s, r) ==
  IF s.selectedAnswerKey = NullKey \/ ~s.proofState.ready THEN r
  ELSE [r EXCEPT !.draftStore =
         Put(r.draftStore, s.currentNodeId,
             Put(GetOr(r.draftStore, s.currentNodeId, EmptyMap),
                 s.selectedAnswerKey, s.proofState))]

\* The draft write-through effect: an updater on the draft store that closes
\* over the rendered node, answer and proof state; r is the state the updates
\* queued before it lead to.
draftWriteEffect(s, r) ==
  IF s.selectedAnswerKey = NullKey THEN r
  ELSE LET nodeDrafts == GetOr(r.draftStore, s.currentNodeId, EmptyMap)
       IN  [r EXCEPT !.draftStore =
             Put(r.draftStore, s.currentNodeId,
                 Put(nodeDrafts, s.selectedAnswerKey, s.proofState))]

\* One commit: both effects of the render of s, in the order they are declared.
runEffects(s) == draftWriteEffect(s, autoConfirmEffect(s))

\* Render and run effects until a render changes nothing.
RECURSIVE Settle(_)
Settle(s) == LET t == runEffects(s) IN IF t = s THEN s ELSE Settle(t)

(***************************************************************************)
(* The state machine                                                       *)
(***************************************************************************)

\* Unit-cell overlays an edit can propose: corner A dragged to (-0.2, 1.5), B
\* outside the unit square the other way, C inside it and D on its border.
UnitCellInputs ==
  { [A |-> [x |-> -20, y |-> 150], B |-> [x |-> 120, y |-> -5],
     C |-> [x |-> 30, y |-> 60], D |-> [x |-> 100, y |-> 0]] }

\* The number of edits (pointer and slider inputs that change the state) the
\* model follows in one session.
MaxEdits == 2

Init ==
  /\ image = initialImageState
  /\ currentNodeId = decisionTree.start
  /\ selectedAnswerKey = NullKey
  /\ proofState = createProofState("none", Undefined)
  /\ history = << >>
  /\ draftStore = EmptyMap
  /\ unitCell = defaultUnitCell
  /\ edits = 0

\* The state after a handler returned s: the effects have run to quiescence.
Commit(s) ==
  LET t == Settle(s)
  IN  /\ image' = t.image
      /\ currentNodeId' = t.currentNodeId
      /\ selectedAnswerKey' = t.selectedAnswerKey
      /\ proofState' = t.proofState
      /\ history' = t.history
      /\ draftStore' = t.draftStore
      /\ unitCell' = t.unitCell

\* A navigation step: a button of the question pane or the top bar.
Navigate(s) == Commit(s) /\ UNCHANGED edits

\* An edit: a pointer or slider input; one that changes nothing is not counted.
Edit(s) ==
  /\ edits < MaxEdits
  /\ Commit(s)
  /\ edits' = IF s = St THEN edits ELSE edits + 1

LoadImage == \E img \in Images : Navigate(imageOnload(St, img))

Restart == Navigate(handleRestart(St))

SelectAnswer == \E k \in AnswerKeys : Navigate(handleSelectAnswer(St, k))

ResetProof == Navigate(handleResetProof(St))

RotationPick == \E p \in Points : Edit(handleRotationPick(St, p))

MirrorLine == \E l \in Lines : Edit(handleMirrorLine(St, l))

GlideLine == \E l \in Lines : Edit(handleGlideLine(St, l))

DraftLine ==
  \E l \in Lines, kind \in {"mirror", "glide"} :
    Edit(handleDraftLine(St, l, kind))

\* The glideMaxDistance prop: image.width / patchSample.size, else 1.  A slider
\* position v (hundredths) is in the range 0 .. glideMaxDistance.
InSliderRange(s, v) ==
  /\ v >= 0
  /\ IF s.image.width # 0 /\ s.proofState.patchSample # Null
     THEN v * s.proofState.patchSample.size <= 100 * Px(s.image.width)
     ELSE v <= 100

GlideDistanceChange ==
  \E v \in GlideValues :
    InSliderRange(St, v) /\ Edit(handleGlideDistanceChange(St, v))

PatchSizeChange ==
  \E v \in PatchSizes : Edit(handlePatchSizeChange(St, v))

RotationRepeatChange ==
  \E v \in RepeatValues : Edit(handleRotationRepeatChange(St, v))

ChangeAnswer == Navigate(handleChangeAnswer(St))

ConfirmAnswer == Navigate(handleConfirmAnswer(St))

Back == Navigate(handleBack(St))

UnitCellChange ==
  \E next \in UnitCellInputs : Edit(handleUnitCellChange(St, next))

Next ==
  \/ LoadImage
  \/ Restart
  \/ SelectAnswer
  \/ ResetProof
  \/ RotationPick
  \/ MirrorLine
  \/ GlideLine
  \/ DraftLine
  \/ GlideDistanceChange
  \/ PatchSizeChange
  \/ RotationRepeatChange
  \/ ChangeAnswer
  \/ ConfirmAnswer
  \/ Back
  \/ UnitCellChange

Spec == Init /\ [][Next]_vars

(***************************************************************************)
(* The proof engine on its own: one answer with a geometric proof is       *)
(* selected on a loaded image, and only the proof is edited.  The images,  *)
(* pointer positions and sizes are more varied than in the whole session.  *)
(***************************************************************************)

\* Loaded images with both dimensions positive: a 1000-px-wide landscape one,
\* the 300 x 200 one, one smaller than the patch size limits and a single pixel.
ProofImages ==
  { [element |-> "imgL", width |-> 1000, height |-> 600],
    [element |-> "imgA", width |-> 300, height |-> 200],
    [element |-> "imgS", width |-> 50, height |-> 70],
    [element |-> "imgP", width |-> 1, height |-> 1],
    [element |-> "imgF", width |-> 203, height |-> 300] }

\* Pointer positions in image space: window-level mouse moves also report
\* positions outside the image, and positions between pixels.
ProofPoints ==
  { [x |-> -Px(50), y |-> -Px(50)], [x |-> 335, y |-> 125],
    [x |-> Px(150), y |-> Px(100)], [x |-> Px(2000), y |-> Px(30)] }

\* Axis lines: horizontal, diagonal, one that ends outside the image, and the
\* line of no length that a drag starts with (startLine) and that an end
\* point dropped on the other one gives.
ProofLines ==
  { [x1 |-> Px(100), y1 |-> Px(100), x2 |-> Px(200), y2 |-> Px(100)],
    [x1 |-> Px(20), y1 |-> Px(20), x2 |-> Px(60), y2 |-> Px(60)],
    [x1 |-> Px(900), y1 |-> Px(500), x2 |-> Px(1100), y2 |-> Px(700)],
    [x1 |-> Px(40), y1 |-> Px(40), x2 |-> Px(40), y2 |-> Px(40)] }

\* Patch sizes asked for: below, between and above the limits.
ProofSizes == { Px(10), Px(120), Px(5000) }

\* The state of a new session.
Boot ==
  [image |-> initialImageState, currentNodeId |-> decisionTree.start,
   selectedAnswerKey |-> NullKey, proofState |-> createProofState("none", Undefined),
   history |-> << >>, draftStore |-> EmptyMap, unitCell |-> defaultUnitCell]

\* The session after img has loaded and the answer k has been selected: the
\* rotation answer of the first question, or an answer of the second question
\* reached through the answer of the first one that needs no proof.
AtAnswer(img, k) ==
  LET loaded == Settle(imageOnload(Boot, img))
  IN  IF k = "yes" THEN Settle(handleSelectAnswer(loaded, "yes"))
      ELSE Settle(handleSelectAnswer(Settle(handleSelectAnswer(loaded, "no")), k))

ProofInit ==
  \E img \in ProofImages, k \in {"yes", "mirror", "glide"} :
    LET s == AtAnswer(img, k)
    IN  /\ image = s.image
        /\ currentNodeId = s.currentNodeId
        /\ selectedAnswerKey = s.selectedAnswerKey
        /\ proofState = s.proofState
        /\ history = s.history
        /\ draftStore = s.draftStore
        /\ unitCell = s.unitCell
        /\ edits = 0

ProofRotationPick == \E p \in ProofPoints : Edit(handleRotationPick(St, p))

ProofLine ==
  \E l \in ProofLines, isFinal \in BOOLEAN :
    Edit(captureLine(St, l, proofState.type, isFinal))

ProofPatchSizeChange == \E v \in ProofSizes : Edit(handlePatchSizeChange(St, v))

\* Positions of the glide slider: its minimum, the default fraction and one
\* above 1.
ProofGlideValues == { 0, 50, 150 }

ProofGlideDistanceChange ==
  \E v \in ProofGlideValues :
    InSliderRange(St, v) /\ Edit(handleGlideDistanceChange(St, v))

ProofNext ==
  \/ ProofRotationPick
  \/ ProofLine
  \/ ProofGlideDistanceChange
  \/ ProofPatchSizeChange
  \/ RotationRepeatChange
  \/ ResetProof

ProofSpec == ProofInit /\ [][ProofNext]_vars

(***************************************************************************)
(* The whole session when an upload may also be an image without           *)
(* dimensions, followed for fewer edits.                                   *)
(***************************************************************************)

\* The number of edits followed in a session with an unsized image.
MaxUnsizedEdits == 1

LoadUnsizedImage == Navigate(imageOnload(St, UnsizedImage))

UnsizedNext ==
  \/ LoadImage
  \/ LoadUnsizedImage
  \/ Restart
  \/ SelectAnswer
  \/ ResetProof
  \/ ChangeAnswer
  \/ ConfirmAnswer
  \/ Back
  \/ edits < MaxUnsizedEdits /\ RotationPick
  \/ edits < MaxUnsizedEdits /\ MirrorLine
  \/ edits < MaxUnsizedEdits /\ GlideLine
  \/ edits < MaxUnsizedEdits /\ DraftLine
  \/ edits < MaxUnsizedEdits /\ ProofGlideDistanceChange
  \/ edits < MaxUnsizedEdits /\ PatchSizeChange
  \/ edits < MaxUnsizedEdits /\ RotationRepeatChange
  \/ edits < MaxUnsizedEdits /\ UnitCellChange

UnsizedSpec == Init /\ [][UnsizedNext]_vars

(***************************************************************************)
(* The whole session when a second image of another size may be uploaded,  *)
(* followed for fewer edits.                                               *)
(***************************************************************************)

\* A second image a file upload can load, smaller than the default patch.
OtherImage == [element |-> "imgS", width |-> 50, height |-> 70]

\* The number of edits followed in a session with two images.
MaxReloadEdits == 1

LoadOtherImage == Navigate(imageOnload(St, OtherImage))

ReloadNext ==
  \/ LoadImage
  \/ LoadOtherImage
  \/ Restart
  \/ SelectAnswer
  \/ ResetProof
  \/ ChangeAnswer
  \/ ConfirmAnswer
  \/ Back
  \/ edits < MaxReloadEdits /\ RotationPick
  \/ edits < MaxReloadEdits /\ MirrorLine
  \/ edits < MaxReloadEdits /\ GlideLine
  \/ edits < MaxReloadEdits /\ DraftLine
  \/ edits < MaxReloadEdits /\ ProofGlideDistanceChange
  \/ edits < MaxReloadEdits /\ PatchSizeChange
  \/ edits < MaxReloadEdits /\ RotationRepeatChange
  \/ edits < MaxReloadEdits /\ UnitCellChange

ReloadSpec == Init /\ [][ReloadNext]_vars

(***************************************************************************)
(* Properties                                                              *)
(***************************************************************************)

Last(h) == h[Len(h)]

Front(h) == SubSeq(h, 1, Len(h) - 1)

IsGeometric(p) == p.type \in {"rotation", "mirror", "glide"}

HasDraft(d, n, k) == n \in DOMAIN d /\ k \in DOMAIN d[n]

\* A confirmation that goes through in the rendered state m and yields this
\* step's history and current node.
ConfirmedFrom(m) ==
  /\ m.selectedAnswerKey # NullKey
  /\ m.proofState.ready
  /\ IsQuestion(currentNode(m))
  /\ FindAnswer(currentNode(m), m.selectedAnswerKey) # Null
  /\ history' = Append(m.history, [nodeId |-> m.currentNodeId,
                                   selectedAnswerKey |-> m.selectedAnswerKey])
  /\ currentNodeId' = FindAnswer(currentNode(m), m.selectedAnswerKey).next

\* C1: confirmAnswer with no selected answer or with ready = false changes
\* nothing; the history grows, by one entry, only by a confirmation made while
\* an answer is selected and its proof state is ready (pressed by the user, or
\* run by the auto-confirm effect on the state a selection or a back step has
\* rendered); and the current node moves forward only together with such a
\* push.
ConfirmGated ==
  [][ /\ ((selectedAnswerKey = NullKey \/ ~proofState.ready) /\ ConfirmAnswer)
           => UNCHANGED <<currentNodeId, history, selectedAnswerKey, proofState, draftStore>>
      /\ (Len(history') > Len(history))
           => \/ ConfirmedFrom(St)
              \/ \E k \in AnswerKeys : ConfirmedFrom(handleSelectAnswer(St, k))
      /\ (currentNodeId' # currentNodeId)
           => \/ Len(history') > Len(history)
              \/ Len(history') < Len(history) /\ currentNodeId' = Last(history).nodeId
              \/ history' = << >> /\ currentNodeId' = decisionTree.start
    ]_vars

\* An unready answer is selected at the second question: a push has happened
\* and confirmAnswer is gated here.
ConfirmGatedWitness ==
  /\ Len(history) = 1
  /\ selectedAnswerKey = "glide"
  /\ proofState.line # Null
  /\ ~proofState.ready

\* A step of one of the operations that edit the current proof.
ProofEditStep ==
  \/ RotationPick
  \/ MirrorLine
  \/ GlideLine
  \/ DraftLine
  \/ GlideDistanceChange
  \/ RotationRepeatChange
  \/ PatchSizeChange

\* C2: once a rotation, mirror or glide proof is ready, no edit of it makes it
\* unready; the current proof goes from ready to not ready only by reset or by
\* a change of the selection, and then the proof selected is a fresh one or an
\* unready draft of another answer; a stored draft that is ready stays ready
\* as long as it is stored, except by a reset while it is the selected one.
ReadyNeverReverts ==
  [][ /\ (IsGeometric(proofState) /\ proofState.ready /\ ProofEditStep)
           => (proofState'.ready /\ proofState'.type = proofState.type)
      /\ (IsGeometric(proofState) /\ proofState.ready /\ ~proofState'.ready)
           => \/ ResetProof
              \/ /\ <<currentNodeId', selectedAnswerKey'>> # <<currentNodeId, selectedAnswerKey>>
                 /\ HasDraft(draftStore, currentNodeId', selectedAnswerKey')
                      => ~draftStore[currentNodeId'][selectedAnswerKey'].ready
      /\ \A n \in DOMAIN draftStore : \A k \in DOMAIN draftStore[n] :
           (draftStore[n][k].ready /\ HasDraft(draftStore', n, k)
              /\ ~draftStore'[n][k].ready)
           => (ResetProof /\ currentNodeId = n /\ selectedAnswerKey = k)
    ]_vars

\* A ready glide proof that the slider has edited after its line was drawn.
ReadyNeverRevertsWitness ==
  /\ proofState.type = "glide"
  /\ proofState.ready
  /\ proofState.line # Null
  /\ proofState.distance = 150

\* C3: from a state in which an answer with a geometric proof is selected and
\* ready, confirmAnswer followed by back() gives back the current node, the
\* selection, the history and the whole proof state.
ConfirmBackRoundTrip ==
  (selectedAnswerKey # NullKey /\ IsGeometric(proofState) /\ proofState.ready)
    => LET confirmed == Settle(handleConfirmAnswer(St))
           backed == Settle(handleBack(confirmed))
       IN  /\ confirmed.history = Append(history, [nodeId |-> currentNodeId,
                                                   selectedAnswerKey |-> selectedAnswerKey])
           /\ backed.currentNodeId = currentNodeId
           /\ backed.selectedAnswerKey = selectedAnswerKey
           /\ backed.history = history
           /\ backed.proofState = proofState

\* Back at the second question after its mirror answer was confirmed (the
\* bucket of the leaf it led to exists): the mirror proof is selected again.
ConfirmBackRoundTripWitness ==
  /\ currentNodeId = "q2"
  /\ selectedAnswerKey = "mirror"
  /\ proofState.type = "mirror"
  /\ proofState.ready
  /\ proofState.line # Null
  /\ "leafM" \in DOMAIN draftStore

\* C4: a back step taken with a non-empty history ends at the node of the
\* popped entry with the history one entry shorter, whatever the proof type of
\* the answer recorded in the entry.
BackPopsOneEntry ==
  [][ (Back /\ Len(history) > 0)
        => (currentNodeId' = Last(history).nodeId /\ history' = Front(history))
    ]_vars

\* The state after n back steps and nothing else.
RECURSIVE BackRun(_, _)
BackRun(s, n) == IF n = 0 THEN s ELSE BackRun(Settle(handleBack(s)), n - 1)

\* C5: from every reachable state, back steps alone make each node recorded in
\* the history the current node in turn, the last recorded first, and end at
\* the start node with an empty history.
BackOnlyReachesStart ==
  /\ \A i \in 1..Len(history) :
       BackRun(St, i).currentNodeId = history[Len(history) - i + 1].nodeId
  /\ BackRun(St, Len(history)).history = << >>
  /\ BackRun(St, Len(history)).currentNodeId = decisionTree.start

\* C6: with an image loaded and a question node active, selecting an answer
\* whose resolved proof type is none ends at that answer's next node, with
\* exactly the entry {node, answer key} appended to the history and no answer
\* selected.
AutoConfirmAdvances ==
  [][ \A k \in AnswerKeys :
        LET node == currentNode(St)
            answer == FindAnswer(node, k)
        IN  ( /\ imageReady(St)
              /\ IsQuestion(node)
              /\ answer # Null
              /\ resolveProofRequirements(node, answer).type = "none"
              /\ Navigate(handleSelectAnswer(St, k)) )
            => /\ currentNodeId' = answer.next
               /\ history' = Append(history, [nodeId |-> currentNodeId,
                                              selectedAnswerKey |-> k])
               /\ selectedAnswerKey' = NullKey
    ]_vars

\* The second question, reached through the answer of the first question that
\* needs no proof: nothing but the selection has been entered.
AutoConfirmAdvancesWitness ==
  /\ currentNodeId = "q2"
  /\ history = << [nodeId |-> "q1", selectedAnswerKey |-> "no"] >>
  /\ selectedAnswerKey = NullKey
  /\ edits = 0

\* C7: a confirmAnswer that goes through appends {current node, selected key}
\* to the history, moves to the answer's next node, clears the selection, sets
\* a fresh none proof state, makes sure the destination node has a bucket in
\* the draft store and changes no stored draft.
ConfirmEffect ==
  [][ LET node == currentNode(St)
          answer == FindAnswer(node, selectedAnswerKey)
      IN  ( /\ selectedAnswerKey # NullKey
            /\ proofState.ready
            /\ IsQuestion(node)
            /\ answer # Null
            /\ ConfirmAnswer )
          => /\ history' = Append(history, [nodeId |-> node.id,
                                            selectedAnswerKey |-> selectedAnswerKey])
             /\ currentNodeId' = answer.next
             /\ selectedAnswerKey' = NullKey
             /\ proofState' = createProofState("none", Undefined)
             /\ DOMAIN draftStore' = DOMAIN draftStore \cup {answer.next}
             /\ \A n \in DOMAIN draftStore : draftStore'[n] = draftStore[n]
             /\ (answer.next \notin DOMAIN draftStore => draftStore'[answer.next] = EmptyMap)
    ]_vars

\* At the second question for the second time: the rotation answer has been
\* confirmed while the bucket of the second question already held a draft.
ConfirmEffectWitness ==
  /\ currentNodeId = "q2"
  /\ history = << [nodeId |-> "q1", selectedAnswerKey |-> "yes"] >>
  /\ selectedAnswerKey = NullKey
  /\ HasDraft(draftStore, "q2", "mirror")
  /\ draftStore["q2"]["mirror"].line # Null

\* C8: changeAnswer clears the selection, sets a fresh none proof state and
\* leaves the history, the current node, the unit cell and the whole draft
\* store as they are.
ChangeAnswerFrame ==
  [][ ChangeAnswer
        => /\ selectedAnswerKey' = NullKey
           /\ proofState' = createProofState("none", Undefined)
           /\ UNCHANGED <<history, currentNodeId, unitCell, draftStore>>
    ]_vars

\* No answer is selected at the first question, whose rotation answer keeps
\* its ready draft, and the unit cell is an edited one (a restart or a new
\* image would have put the default back).
ChangeAnswerFrameWitness ==
  /\ currentNodeId = "q1"
  /\ history = << >>
  /\ selectedAnswerKey = NullKey
  /\ HasDraft(draftStore, "q1", "yes")
  /\ draftStore["q1"]["yes"].ready
  /\ unitCell # defaultUnitCell

\* The states one edit of the current proof can lead to from s.
OneEdit(s) ==
  { Settle(handleRotationPick(s, p)) : p \in Points }
    \cup { Settle(captureLine(s, l, s.proofState.type, f)) : l \in Lines, f \in BOOLEAN }
    \cup { Settle(handleGlideDistanceChange(s, v)) :
              v \in { w \in GlideValues : InSliderRange(s, w) } }
    \cup { Settle(handlePatchSizeChange(s, v)) : v \in PatchSizes }
    \cup { Settle(handleRotationRepeatChange(s, v)) : v \in RepeatValues }
    \cup { Settle(handleResetProof(s)) }

\* The keys of the other answers of node that ask for a geometric proof.
OtherGeometricKeys(node, key) ==
  { node.answers[i].key : i \in { j \in 1..Len(node.answers) :
        /\ node.answers[j].key # key
        /\ resolveProofRequirements(node, node.answers[j]).type # "none" } }

\* C9: with an answer that has a geometric proof selected, changeAnswer and
\* then selectAnswer of the same key gives back the proof state as it is, also
\* when another answer of the node is selected, edited and deselected in
\* between; and selecting an answer that has no stored draft gives the fresh
\* state of its resolved type.
DraftRoundTrip ==
  /\ (selectedAnswerKey # NullKey /\ IsGeometric(proofState))
       => LET cleared == Settle(handleChangeAnswer(St))
              again == Settle(handleSelectAnswer(cleared, selectedAnswerKey))
          IN  /\ again.proofState = proofState
              /\ again.selectedAnswerKey = selectedAnswerKey
              /\ \A k2 \in OtherGeometricKeys(currentNode(St), selectedAnswerKey) :
                   \A edited \in OneEdit(Settle(handleSelectAnswer(cleared, k2))) :
                     LET back == Settle(handleSelectAnswer(
                                   Settle(handleChangeAnswer(edited)), selectedAnswerKey))
                     IN  /\ back.proofState = proofState
                         /\ back.selectedAnswerKey = selectedAnswerKey
  /\ (imageReady(St) /\ IsQuestion(currentNode(St)))
       => \A i \in 1..Len(currentNode(St).answers) :
            LET answer == currentNode(St).answers[i]
                req == resolveProofRequirements(currentNode(St), answer)
            IN  (req.type # "none" /\ ~HasDraft(draftStore, currentNodeId, answer.key))
                  => LET sel == Settle(handleSelectAnswer(St, answer.key))
                     IN  /\ sel.selectedAnswerKey = answer.key
                         /\ sel.proofState = createProofState(req.type, req.rotationAngleDeg)

\* The mirror answer is selected with its ready proof while the glide answer of
\* the same node keeps a draft with a line, and the round trip through the
\* glide answer gives the mirror proof back.
DraftRoundTripWitness ==
  /\ currentNodeId = "q2"
  /\ selectedAnswerKey = "mirror"
  /\ proofState.ready
  /\ HasDraft(draftStore, "q2", "glide")
  /\ draftStore["q2"]["glide"].line # Null
  /\ \E edited \in OneEdit(Settle(handleSelectAnswer(Settle(handleChangeAnswer(St)), "glide"))) :
       /\ edited.draftStore["q2"]["glide"] # draftStore["q2"]["glide"]
       /\ Settle(handleSelectAnswer(Settle(handleChangeAnswer(edited)), "mirror")).proofState
            = proofState

\* C10: whenever an answer is selected, the draft stored for (current node,
\* selected answer) is the current proof state.
WriteThrough ==
  selectedAnswerKey # NullKey
    => /\ HasDraft(draftStore, currentNodeId, selectedAnswerKey)
       /\ draftStore[currentNodeId][selectedAnswerKey] = proofState

\* A rotation proof after a pick and a change of repeats: the draft has
\* followed both edits.
WriteThroughWitness ==
  /\ selectedAnswerKey = "yes"
  /\ proofState.center # Null
  /\ proofState.repeats = 3
  /\ draftStore["q1"]["yes"] = proofState


\* C11: restart() from any reachable state yields the start node, an empty
\* history, an empty draft store, no selected answer, the fresh none proof
\* state and the default unit cell, and leaves the loaded image as it is.
RestartResets ==
  LET r == Settle(handleRestart(St))
  IN  /\ r.currentNodeId = decisionTree.start
      /\ r.history = << >>
      /\ r.draftStore = EmptyMap
      /\ r.selectedAnswerKey = NullKey
      /\ r.proofState = createProofState("none", Undefined)
      /\ r.unitCell = defaultUnitCell
      /\ r.image = image

\* A session restart has everything to clear in: a confirmed answer in the
\* history, stored drafts, a selected answer with a ready proof and an edited
\* unit cell, with an image loaded.
RestartResetsWitness ==
  /\ imageReady(St)
  /\ Len(history) = 1
  /\ selectedAnswerKey = "mirror"
  /\ proofState.ready
  /\ HasDraft(draftStore, "q2", "mirror")
  /\ unitCell # defaultUnitCell
  /\ Settle(handleRestart(St)).draftStore = EmptyMap


\* C12: an operation invoked when its precondition fails changes nothing of
\* the controller state: supplyRotationPoint when the state is not rotation,
\* supplyLine when the state's type differs from the line's kind,
\* adjustGlideDistance when the state is not glide or has no line or patch
\* sample, adjustRotationRepeats when the state is not rotation or has no
\* center or patch sample, a supply operation when the image has zero width
\* or height, selectAnswer with no image loaded, at a leaf or with an unknown
\* key, and back() with an empty history.
FailedPreconditionNoOp ==
  /\ proofState.type # "rotation"
       => \A p \in Points : Settle(handleRotationPick(St, p)) = St
  /\ \A kind \in {"mirror", "glide"} :
       proofState.type # kind
         => \A l \in Lines, f \in BOOLEAN : Settle(captureLine(St, l, kind, f)) = St
  /\ (proofState.type # "glide" \/ proofState.line = Null \/ proofState.patchSample = Null)
       => \A v \in GlideValues : Settle(handleGlideDistanceChange(St, v)) = St
  /\ (proofState.type # "rotation" \/ proofState.center = Null \/ proofState.patchSample = Null)
       => \A n \in RepeatValues : Settle(handleRotationRepeatChange(St, n)) = St
  /\ (image.width = 0 \/ image.height = 0)
       => /\ \A p \in Points : Settle(handleRotationPick(St, p)) = St
          /\ \A l \in Lines, kind \in {"mirror", "glide"}, f \in BOOLEAN :
               Settle(captureLine(St, l, kind, f)) = St
  /\ \A k \in AnswerKeys :
       (~imageReady(St) \/ ~IsQuestion(currentNode(St)) \/ FindAnswer(currentNode(St), k) = Null)
         => Settle(handleSelectAnswer(St, k)) = St
  /\ history = << >> => Settle(handleBack(St)) = St

\* The glide answer is selected on an image without dimensions and nothing has
\* been drawn: a point, a line of either kind, the glide slider and the repeats
\* slider all find their precondition failed, and so does an answer key of
\* another node.
FailedPreconditionNoOpWitness ==
  /\ image.element = "imgZ"
  /\ currentNodeId = "q2"
  /\ selectedAnswerKey = "glide"
  /\ proofState.type = "glide"
  /\ proofState.line = Null
  /\ draftStore["q2"]["glide"] = proofState


\* A proof state without a committed geometric input: a none state, a
\* rotation state without a center, a mirror or glide state without a line.
NoGeometricInput(p) ==
  \/ p.type = "none"
  \/ p.type = "rotation" /\ p.center = Null
  \/ p.type \in {"mirror", "glide"} /\ p.line = Null

\* C13: resizePatch(newSize) on a proof state that has no committed geometric
\* input returns the proof state unchanged, patchSize included.
ResizeWithoutInputNoOp ==
  NoGeometricInput(proofState)
    => \A v \in PatchSizes :
         Settle(handlePatchSizeChange(St, v)).proofState = proofState

\* C13, amended: resizePatch(newSize) on a proof state that has no committed
\* geometric input stores the size, clamped to the patch size limits, as
\* patchSize and changes nothing else: type, ready, before, after, patchSample,
\* the center or line and the parameters stay, and so do the current node,
\* the selection, the history and the image.
ResizeWithoutInputStoresSize ==
  NoGeometricInput(proofState)
    => \A v \in PatchSizes :
         LET r == Settle(handlePatchSizeChange(St, v))
             limits == patchSizeLimits(image)
             stored == IF v < limits.min THEN limits.min
                       ELSE IF v > limits.max THEN limits.max ELSE v
         IN  /\ r.proofState = [proofState EXCEPT !.patchSize = stored]
             /\ r.currentNodeId = currentNodeId
             /\ r.selectedAnswerKey = selectedAnswerKey
             /\ r.history = history
             /\ r.image = image
             /\ r.unitCell = unitCell

\* A rotation proof that has no center yet and whose patch size the slider
\* has already set (to the lower limit of the 300 x 200 image).
ResizeWithoutInputStoresSizeWitness ==
  /\ image.element = "imgA"
  /\ proofState.type = "rotation"
  /\ proofState.center = Null
  /\ ~proofState.ready
  /\ proofState.patchSample = Null
  /\ proofState.patchSize = Px(40)


\* Patch sizes a caller of samplePatch may ask for, from a fifth of a pixel up
\* (even numbers of tenths, so that size / 2 is exact).
SampleSizes == { 2, Px(1), 406, Px(280), Px(5000) }

\* The patch r has the size min(s, W, H) and its crop lies inside img.
InBounds(r, s, img) ==
  /\ r.size <= s /\ r.size <= Px(img.width) /\ r.size <= Px(img.height)
  /\ r.size \in {s, Px(img.width), Px(img.height)}
  /\ 0 <= r.origin.x /\ r.origin.x + r.size <= Px(img.width)
  /\ 0 <= r.origin.y /\ r.origin.y + r.size <= Px(img.height)

\* C14: for an image with positive width and height, every focus point,
\* inside or outside the image, and every requested size s > 0, samplePatch
\* returns a patch of size min(s, W, H) whose crop lies fully inside the
\* image; so does the patch sample every proof edit stores.
SamplePatchInBounds ==
  /\ \A p \in ProofPoints, s \in SampleSizes :
       LET r == samplePatch(image, p, s)
       IN  r # Null /\ InBounds(r, s, image)
  /\ proofState.patchSample # Null
       => InBounds(proofState.patchSample, proofState.patchSize, image)

\* A rotation center picked outside the 300 x 200 image with the default patch
\* size: the patch is shrunk to the image's height and its crop starts at the
\* image's corner.
SamplePatchInBoundsWitness ==
  /\ image.element = "imgA"
  /\ proofState.type = "rotation"
  /\ proofState.center = [x |-> -Px(50), y |-> -Px(50)]
  /\ proofState.patchSize = Px(PATCH_SIZE)
  /\ proofState.patchSample.size = Px(200)
  /\ proofState.patchSample.origin = [x |-> 0, y |-> 0]


\* C15: from a rotation state with a committed center, resizePatch(s) followed
\* by adjustRotationRepeats(n) gives the same after buffer, patch sample and
\* stored parameters (the same proof state and drafts) as
\* adjustRotationRepeats(n) followed by resizePatch(s); and from a glide state
\* with a committed line the same holds of resizePatch(s) and
\* adjustGlideDistance(f), for all s, n and f.
OrderIndependent ==
  /\ (proofState.type = "rotation" /\ proofState.center # Null)
       => \A v \in ProofSizes, n \in RepeatValues :
            Settle(handleRotationRepeatChange(Settle(handlePatchSizeChange(St, v)), n))
              = Settle(handlePatchSizeChange(Settle(handleRotationRepeatChange(St, n)), v))
  /\ (proofState.type = "glide" /\ proofState.line # Null)
       => \A v \in ProofSizes, f \in ProofGlideValues :
            Settle(handleGlideDistanceChange(Settle(handlePatchSizeChange(St, v)), f))
              = Settle(handlePatchSizeChange(Settle(handleGlideDistanceChange(St, f)), v))

\* A rotation proof with a center on which a resize and a change of repeats
\* each change the preview, and the resize also the patch sample: the two
\* orders go through different intermediate states.
OrderIndependentWitness ==
  /\ proofState.type = "rotation"
  /\ proofState.center # Null
  /\ proofState.repeats = 1
  /\ \E v \in ProofSizes, n \in RepeatValues :
       LET resized == Settle(handlePatchSizeChange(St, v))
           repeated == Settle(handleRotationRepeatChange(St, n))
           both == Settle(handleRotationRepeatChange(resized, n))
       IN  /\ resized.proofState.patchSample # proofState.patchSample
           /\ repeated.proofState.after # proofState.after
           /\ resized.proofState.after # repeated.proofState.after
           /\ both.proofState.repeats = 3
           /\ both.proofState.patchSample = resized.proofState.patchSample


\* C16: in a glide state with a committed line, resizePatch(s) gives the after
\* buffer that supplyLine(current line, glide, final) gives in the state whose
\* patchSize is already s, with the same line and distance fraction; so
\* resizePatch to the current patchSize leaves the after buffer that
\* supplyLine has just computed as it is.
ResizeMatchesSupplyLine ==
  (proofState.type = "glide" /\ proofState.line # Null /\ proofState.ready)
    => \A s \in {proofState.patchSize} \cup ProofSizes :
         LET sized == [St EXCEPT !.proofState.patchSize = s]
         IN  resizePatch(St, proofState, s).after
               = handleGlideLine(sized, proofState.line).proofState.after


\* C17: in every reachable glide proof state and every stored glide draft the
\* distance fraction is between 0 and 1, for every position the glide slider
\* can send.
GlideDistanceIsFraction ==
  /\ proofState.type = "glide"
       => (0 <= proofState.distance /\ proofState.distance <= 100)
  /\ \A n \in DOMAIN draftStore : \A k \in DOMAIN draftStore[n] :
       draftStore[n][k].type = "glide"
         => (0 <= draftStore[n][k].distance /\ draftStore[n][k].distance <= 100)


\* A slide of px whole pixels, in the unit of glidePatch's distance.
SlidePx(px) == px * SlideUnit

\* C18: adjustGlideDistance(f) in a glide state with a committed line
\* recomputes after, on the stored line and patch sample, with a slide of
\* f * max(imageWidth, imageHeight) pixels (500 px for f = 0.5 on the
\* 1000-px-wide landscape image), stores distance = f and leaves ready, line,
\* before, patchSample and patchSize as they are.
GlideDistanceSlide ==
  (proofState.type = "glide" /\ proofState.line # Null /\ proofState.patchSample # Null)
    => \A f \in ProofGlideValues :
         LET r == Settle(handleGlideDistanceChange(St, f)).proofState
             larger == IF image.width >= image.height THEN image.width ELSE image.height
             slide == (f * SlidePx(larger)) \div 100
         IN  /\ r.distance = f
             /\ r.after = glidePatch(proofState.patchSample, proofState.line, slide, image)
             /\ r.after.calls[4] = Slide(slide)
             /\ (image.width = 1000 /\ image.height <= 1000 /\ f = 50)
                  => r.after.calls[4].x = SlidePx(500)
             /\ r.ready = proofState.ready
             /\ r.line = proofState.line
             /\ r.before = proofState.before
             /\ r.patchSample = proofState.patchSample
             /\ r.patchSize = proofState.patchSize

\* On the 1000 x 600 image, after a line was drawn with the default patch
\* size (a slide of 0.5 * 140 px) the slider has been set to 0.5: the slide of
\* the preview is 500 px.
GlideDistanceSlideWitness ==
  /\ image.width = 1000
  /\ proofState.type = "glide"
  /\ proofState.line # Null
  /\ proofState.patchSize = Px(PATCH_SIZE)
  /\ proofState.distance = 50
  /\ proofState.after.calls[4] = Slide(SlidePx(500))


\* Image widths and heights, in pixels, around the values where a limit
\* changes from its constant to its share of the image.
LimitDims == { 1, 24, 25, 26, 79, 80, 81, 199, 200, 201, 300, 301, 400, 1000 }

\* clamp(v, max(40, 0.2 * min(W,H)), max(80, min(W,H))), in tenths of a pixel.
ClampToLimits(v, w, h) ==
  LET m == IF w <= h THEN w ELSE h
      lo == IF 2 * m >= Px(40) THEN 2 * m ELSE Px(40)
      hi == IF m >= 80 THEN Px(m) ELSE Px(80)
  IN  IF v < lo THEN lo ELSE IF v > hi THEN hi ELSE v

\* C19: resizePatch(v) on a state with a committed center or line stores
\* patchSize = clamp(v, min, max) with min = max(40, 0.2 * min(W,H)) and
\* max = max(80, min(W,H)); the limits the code computes are these for every
\* image size W, H >= 1, with min <= max; the patch is resampled at the stored
\* center, or the midpoint of the stored line, with that size; and ready, the
\* center or line, angleDeg, repeats and distance stay as they are.
ResizeClamps ==
  /\ \A w \in LimitDims, h \in LimitDims :
       LET limits == patchSizeLimits([element |-> "img", width |-> w, height |-> h])
       IN  /\ limits.min = ClampToLimits(0, w, h)
           /\ limits.max = ClampToLimits(Px(w) + Px(h) + Px(80), w, h)
           /\ limits.min <= limits.max
  /\ ~NoGeometricInput(proofState)
       => \A v \in ProofSizes :
            LET r == Settle(handlePatchSizeChange(St, v)).proofState
                stored == ClampToLimits(v, image.width, image.height)
                focus == IF proofState.type = "rotation" THEN proofState.center
                         ELSE midPoint(proofState.line)
            IN  /\ r.patchSize = stored
                /\ r.patchSample = samplePatch(image, focus, stored)
                /\ r.before = r.patchSample.data
                /\ r.type = proofState.type
                /\ r.ready = proofState.ready
                /\ proofState.type = "rotation"
                     => /\ r.center = proofState.center
                        /\ r.angleDeg = proofState.angleDeg
                        /\ r.repeats = proofState.repeats
                /\ proofState.type \in {"mirror", "glide"} => r.line = proofState.line
                /\ proofState.type = "glide" => r.distance = proofState.distance

\* On the 50 x 70 image, below the lower bound of the upper limit, a size
\* above the limits was asked for after a center was picked: 80 px is stored
\* and the patch is resampled with the image's width.
ResizeClampsWitness ==
  /\ image.element = "imgS"
  /\ proofState.type = "rotation"
  /\ proofState.center # Null
  /\ proofState.ready
  /\ proofState.patchSize = Px(80)
  /\ proofState.patchSample.size = Px(50)


\* The bound of [0,1] nearest to a coordinate, in hundredths.
NearestInUnit(v) == IF v < 0 THEN 0 ELSE IF v > 100 THEN 100 ELSE v

\* C20: in every reachable state the four unit-cell corners have x and y in
\* [0,1]; an edit stores, for each coordinate it proposes, the value itself
\* or the nearest bound when it is outside [0,1] (corner A dragged to
\* (-0.2, 1.5) is stored as (0, 1)); and a unit-cell edit leaves the proof
\* state, the draft store, the history, the current node, the selection and
\* the image as they are.
UnitCellClamped ==
  /\ \A c \in {"A", "B", "C", "D"} :
       /\ 0 <= unitCell[c].x /\ unitCell[c].x <= 100
       /\ 0 <= unitCell[c].y /\ unitCell[c].y <= 100
  /\ \A next \in UnitCellInputs :
       LET r == Settle(handleUnitCellChange(St, next))
       IN  /\ \A c \in {"A", "B", "C", "D"} :
                r.unitCell[c] = [x |-> NearestInUnit(next[c].x),
                                 y |-> NearestInUnit(next[c].y)]
           /\ next.A = [x |-> -20, y |-> 150] => r.unitCell.A = [x |-> 0, y |-> 100]
           /\ [r EXCEPT !.unitCell = unitCell] = St

\* The overlay after corner A was dragged to (-0.2, 1.5), at the second
\* question (which shows the guides) with a ready proof selected.
UnitCellClampedWitness ==
  /\ unitCell.A = [x |-> 0, y |-> 100]
  /\ unitCell.B = [x |-> 100, y |-> 0]
  /\ unitCell.C = [x |-> 30, y |-> 60]
  /\ currentNodeId = "q2"
  /\ selectedAnswerKey # NullKey
  /\ proofState.ready


(***************************************************************************)
(* What a buffer shows: the transform of a 2D context                      *)
(***************************************************************************)

\* A call that leaves the current transform as it is: translate(0, 0),
\* rotate(0), scale(1, 1), and rotate(+-Math.atan2(0, dx)) with dx >= 0, for
\* which Math.atan2 returns 0.
IsIdentityCall(c) ==
  \/ c.op = "translate" /\ c.x = 0 /\ c.y = 0
  \/ c.op = "rotate" /\ c.deg = 0
  \/ c.op = "rotateAtan2" /\ c.dy = 0 /\ c.dx >= 0
  \/ c.op = "scale" /\ c.x = 1 /\ c.y = 1

\* Two consecutive calls that multiply the transform by one matrix of the
\* same kind: two translations in one unit, two scalings, two rotations in
\* degrees, or a rotation by an angle and by its negative.
Merges(a, b) ==
  /\ a.op = b.op
  /\ a.op = "translate" => DOMAIN a = DOMAIN b
  /\ a.op = "rotateAtan2" => (a.dy = b.dy /\ a.dx = b.dx /\ a.sign + b.sign = 0)
  /\ a.op \in {"translate", "rotate", "rotateAtan2", "scale"}

\* The one call that two merging calls amount to.
Merged(a, b) ==
  CASE a.op = "translate" -> [a EXCEPT !.x = a.x + b.x, !.y = a.y + b.y]
    [] a.op = "scale" -> ScaleBy(a.x * b.x, a.y * b.y)
    [] a.op = "rotate" -> RotateDeg((a.deg + b.deg) % 360)
    [] OTHER -> RotateDeg(0)

\* The calls of a context reduced to the shortest list with the same product
\* of matrices that dropping identity calls and merging neighbours gives.
RECURSIVE Reduce(_, _)
Reduce(done, rest) ==
  IF rest = << >> THEN done
  ELSE LET c == Head(rest)
       IN  IF IsIdentityCall(c) THEN Reduce(done, Tail(rest))
           ELSE IF done # << >> /\ Merges(Last(done), c)
             THEN Reduce(Front(done), << Merged(Last(done), c) >> \o Tail(rest))
           ELSE Reduce(Append(done, c), Tail(rest))

\* The content of a buffer: its side and the reduced calls; the whole image
\* drawn at (-x, -y) under the identity transform fills the canvas with the
\* image's window at (x, y), which is what the crop call of samplePatch draws.
Drawn(buffer) ==
  LET calls == Reduce(<< >>, buffer.calls)
  IN  IF Len(calls) = 1 /\ calls[1].op = "drawImage"
      THEN [size |-> buffer.size,
            calls |-> << [op |-> "drawCrop", img |-> calls[1].img,
                          x |-> -calls[1].x, y |-> -calls[1].y,
                          size |-> buffer.size] >>]
      ELSE [size |-> buffer.size, calls |-> calls]

\* The transform calls of a buffer, without the draw call that ends them.
TransformCalls(buffer) == SubSeq(buffer.calls, 1, Len(buffer.calls) - 1)


\* C21: for every patch sample, line and image, glidePatch with distance 0
\* makes the calls of reflectPatch with the same line (align to the axis, flip
\* across it, turn back) with one translate(0, 0) between the flip and the
\* turn back, so it shows the same buffer; and a glide state whose distance is
\* 0 shows in after what reflectPatch shows for its patch sample and line.
GlideZeroIsReflect ==
  /\ (proofState.type \in {"mirror", "glide"} /\ proofState.patchSample # Null)
       => \A l \in ProofLines \cup {proofState.line} :
            LET glide == glidePatch(proofState.patchSample, l, 0, image)
                reflect == reflectPatch(proofState.patchSample, l, image)
            IN  /\ Drawn(glide) = Drawn(reflect)
                /\ Len(glide.calls) = Len(reflect.calls) + 1
                /\ SubSeq(glide.calls, 1, 3) = SubSeq(reflect.calls, 1, 3)
                /\ IsIdentityCall(glide.calls[4])
                /\ SubSeq(glide.calls, 5, 7) = SubSeq(reflect.calls, 4, 6)
  /\ (proofState.type = "glide" /\ proofState.line # Null /\ proofState.distance = 0)
       => Drawn(proofState.after)
            = Drawn(reflectPatch(proofState.patchSample, proofState.line, image))

\* A glide preview across a diagonal line after the slider was moved to 0: the
\* turn to the axis is not the identity and the buffer is the reflection.
GlideZeroIsReflectWitness ==
  /\ proofState.type = "glide"
  /\ proofState.line # Null
  /\ proofState.line.y1 # proofState.line.y2
  /\ proofState.distance = 0
  /\ proofState.after.calls[4] = Slide(0)
  /\ Len(Drawn(proofState.after).calls) = 6
  /\ Drawn(proofState.after) # proofState.after


\* The buffer that shows the image under the transform of a buffer applied
\* twice: its transform calls made twice, then its draw call.
DrawnTwice(buffer) ==
  ImageData(buffer.size,
            TransformCalls(buffer) \o TransformCalls(buffer)
              \o << buffer.calls[Len(buffer.calls)] >>)

\* C22: for every patch sample and every line with two different end points,
\* the transform reflectPatch applies, composed with itself, is the identity
\* (checked on horizontal and 45-degree lines with whole coordinates), so the
\* image drawn under the reflection applied twice is the patch's own crop.
ReflectInvolution ==
  (proofState.type \in {"mirror", "glide"} /\ proofState.patchSample # Null)
    => \A l \in ProofLines \cup {proofState.line} :
         (l.x1 # l.x2 \/ l.y1 # l.y2)
           => LET reflect == reflectPatch(proofState.patchSample, l, image)
              IN  /\ Reduce(<< >>, TransformCalls(reflect) \o TransformCalls(reflect)) = << >>
                  /\ Drawn(DrawnTwice(reflect)) = proofState.patchSample.data
                  /\ Drawn(DrawnTwice(reflect)) = Drawn(proofState.before)

\* A mirror preview across a diagonal line: the reflection shows something
\* other than the crop, and the reflection applied twice shows the crop.
ReflectInvolutionWitness ==
  /\ proofState.type = "mirror"
  /\ proofState.line # Null
  /\ proofState.line.y1 # proofState.line.y2
  /\ proofState.line.x1 # proofState.line.x2
  /\ Len(Drawn(proofState.after).calls) = 6
  /\ Drawn(proofState.after) # proofState.before
  /\ Drawn(DrawnTwice(proofState.after)) = proofState.before


\* C23: for every patch sample, also one whose crop was clamped at an edge of
\* the image so that the focus is not at its middle, rotatePatch by 0 degrees
\* draws the image's window at the patch's origin with the patch's size: the
\* buffer equals the patch's own data, which the proof state holds as before.
RotateZeroIsIdentity ==
  proofState.patchSample # Null
    => LET sample == proofState.patchSample
           turned == rotatePatch(sample, 0, image)
       IN  /\ Drawn(turned) = sample.data
           /\ Drawn(turned) = proofState.before
           /\ Drawn(turned).calls
                = << DrawCrop(image, sample.origin.x, sample.origin.y, sample.size) >>

\* A rotation preview whose crop was clamped (the focus is not the middle of
\* the patch and the origin is not the image's corner): the quarter or half
\* turn shows something else than the crop, the turn by 0 degrees the crop.
RotateZeroIsIdentityWitness ==
  /\ proofState.type = "rotation"
  /\ proofState.patchSample # Null
  /\ proofState.patchSample.relativeCenter.x # proofState.patchSample.size \div 2
  /\ proofState.patchSample.origin.x > 0
  /\ Drawn(proofState.after) # proofState.before
  /\ Drawn(rotatePatch(proofState.patchSample, 0, image)) = proofState.before


\* x1 = x2 and y1 = y2
ZeroLength(line) == line.x1 = line.x2 /\ line.y1 = line.y2

\* C24: a line of no length is a guarded no-op: reflectPatch and glidePatch
\* return a buffer that shows the untransformed patch, captureLine with such
\* a line (final or not) either leaves the proof state as it is or stores an
\* after buffer that shows the patch as before does, and no reachable proof
\* state holds such a line with an after buffer that differs from before.
DegenerateLineNoOp ==
  /\ (proofState.type \in {"mirror", "glide"} /\ proofState.patchSample # Null)
       => \A l \in ProofLines :
            ZeroLength(l)
              => /\ Drawn(reflectPatch(proofState.patchSample, l, image))
                      = proofState.patchSample.data
                 /\ Drawn(glidePatch(proofState.patchSample, l, 0, image))
                      = proofState.patchSample.data
  /\ proofState.type \in {"mirror", "glide"}
       => \A l \in ProofLines, isFinal \in BOOLEAN :
            ZeroLength(l)
              => LET r == Settle(captureLine(St, l, proofState.type, isFinal))
                 IN  \/ r = St
                     \/ Drawn(r.proofState.after) = Drawn(r.proofState.before)
  /\ (proofState.type \in {"mirror", "glide"} /\ proofState.line # Null
        /\ ZeroLength(proofState.line))
       => Drawn(proofState.after) = Drawn(proofState.before)


\* C25: reset() with an answer selected replaces the proof state by the
\* freshly initialized state of the resolved proof type and rotation-angle
\* override of (current node, selected answer): ready false for the geometric
\* types, center or line null, before, after and patchSample null, repeats 1,
\* distance 0.5, angleDeg the override or else 180, patchSize 280; the draft
\* stored for (current node, selected answer) becomes that state, and the
\* history, the current node, the selection and the other drafts stay.
ResetReinitializes ==
  /\ createProofState("rotation", Undefined).angleDeg = 180
  /\ (selectedAnswerKey # NullKey /\ IsQuestion(currentNode(St)))
       => LET r == Settle(handleResetProof(St))
              node == currentNode(St)
              req == resolveProofRequirements(node, FindAnswer(node, selectedAnswerKey))
              p == r.proofState
          IN  /\ p = createProofState(req.type, req.rotationAngleDeg)
              /\ p.type = req.type
              /\ p.type # "none" => ~p.ready
              /\ p.before = Null /\ p.after = Null /\ p.patchSample = Null
              /\ p.patchSize = Px(280)
              /\ p.type = "rotation"
                   => /\ p.center = Null
                      /\ p.repeats = 1
                      /\ p.angleDeg = (IF req.rotationAngleDeg = Undefined THEN 180
                                       ELSE CHOOSE a \in req.rotationAngleDeg : TRUE)
              /\ p.type \in {"mirror", "glide"} => p.line = Null
              /\ p.type = "glide" => p.distance = 50
              /\ r.draftStore[currentNodeId][selectedAnswerKey] = p
              /\ r.draftStore = Put(draftStore, currentNodeId,
                                    Put(GetOr(draftStore, currentNodeId, EmptyMap),
                                        selectedAnswerKey, p))
              /\ r.history = history
              /\ r.currentNodeId = currentNodeId
              /\ r.selectedAnswerKey = selectedAnswerKey
              /\ r.image = image
              /\ r.unitCell = unitCell

\* The rotation answer of the first question, reset after a center was picked
\* and the patch resized: the fresh state with the answer's 90 degrees and
\* the default patch size is the proof state and the stored draft.
ResetReinitializesWitness ==
  /\ currentNodeId = "q1"
  /\ selectedAnswerKey = "yes"
  /\ edits = 2
  /\ unitCell = defaultUnitCell
  /\ proofState = createProofState("rotation", {90})
  /\ draftStore["q1"]["yes"] = proofState
  /\ DOMAIN draftStore = {"q1"}


\* The answers of a node of the tree with a given key.
AnswersOf(nodeId, key) ==
  IF nodeId \in NodeIds /\ "answers" \in DOMAIN decisionTree.nodes[nodeId]
  THEN { a \in { decisionTree.nodes[nodeId].answers[i] :
                   i \in 1..Len(decisionTree.nodes[nodeId].answers) } : a.key = key }
  ELSE {}

\* The effective proof type of an answer of a node: the answer's own proof
\* type, else the node's, else none.
EffectiveType(nodeId, a) ==
  IF "proofType" \in DOMAIN a THEN a.proofType
  ELSE IF "proofType" \in DOMAIN decisionTree.nodes[nodeId]
    THEN decisionTree.nodes[nodeId].proofType
  ELSE "none"

\* C26: in every reachable state (the effects have run) in which an answer is
\* selected, the selection names an answer of the current node and
\* proofState.type is the effective proof type of that answer: the answer's
\* proofType, else the node's, else none; and every draft stored under a node
\* and an answer key has the effective proof type of that answer of that node.
ProofTypeCoherent ==
  /\ selectedAnswerKey # NullKey
       => /\ AnswersOf(currentNodeId, selectedAnswerKey) # {}
          /\ \A a \in AnswersOf(currentNodeId, selectedAnswerKey) :
               proofState.type = EffectiveType(currentNodeId, a)
  /\ \A n \in DOMAIN draftStore : \A k \in DOMAIN draftStore[n] :
       /\ AnswersOf(n, k) # {}
       /\ \A a \in AnswersOf(n, k) : draftStore[n][k].type = EffectiveType(n, a)

\* At the second question with the glide answer selected and a line drawn,
\* after the first question's rotation answer and its none answer and the
\* second question's mirror answer have been selected: four drafts of four
\* types, each under its own node and answer.
ProofTypeCoherentWitness ==
  /\ currentNodeId = "q2"
  /\ selectedAnswerKey = "glide"
  /\ proofState.type = "glide"
  /\ proofState.ready
  /\ DOMAIN draftStore = {"q1", "q2"}
  /\ DOMAIN draftStore["q1"] = {"yes", "no"}
  /\ DOMAIN draftStore["q2"] = {"mirror", "glide"}
  /\ draftStore["q1"]["yes"].type = "rotation"
  /\ draftStore["q1"]["no"].type = "none"
  /\ draftStore["q2"]["mirror"].type = "mirror"
  /\ draftStore["q2"]["glide"] = proofState


\* C27: supplyLine(line, kind, isFinal) in a mirror or glide state of that
\* kind stores the line, the patch sampled at the line's midpoint with the
\* state's patch size, that patch's data as before and the recomputed after,
\* whether isFinal is set or not; ready becomes true when isFinal is true and
\* stays what it was when isFinal is false, also over two in-progress calls
\* in a row; while ready is false confirmAnswer changes nothing.
SupplyLineFinal ==
  proofState.type \in {"mirror", "glide"}
    => \A l \in ProofLines, isFinal \in BOOLEAN :
         LET r == Settle(captureLine(St, l, proofState.type, isFinal))
             p == r.proofState
             patch == samplePatch(image, midPoint(l), proofState.patchSize)
         IN  /\ p.line = l
             /\ p.patchSample = patch
             /\ p.before = patch.data
             /\ p.after = IF proofState.type = "mirror"
                          THEN reflectPatch(patch, l, image)
                          ELSE glidePatch(patch, l, proofState.distance * patch.size, image)
             /\ p.ready = (isFinal \/ proofState.ready)
             /\ p.type = proofState.type
             /\ p.patchSize = proofState.patchSize
             /\ proofState.type = "glide" => p.distance = proofState.distance
             /\ r.history = history
             /\ r.currentNodeId = currentNodeId
             /\ r.selectedAnswerKey = selectedAnswerKey
             /\ \A l2 \in ProofLines :
                  LET r2 == Settle(handleDraftLine(
                                     Settle(handleDraftLine(St, l, proofState.type)),
                                     l2, proofState.type))
                  IN  /\ r2.proofState.ready = proofState.ready
                      /\ r2.proofState.line = l2
                      /\ ~proofState.ready => Settle(handleConfirmAnswer(r2)) = r2

\* A mirror state during a drag: a line and its preview are stored by calls
\* that were not final, and ready is still false.
SupplyLineFinalWitness ==
  /\ proofState.type = "mirror"
  /\ proofState.line # Null
  /\ proofState.patchSample # Null
  /\ proofState.after = reflectPatch(proofState.patchSample, proofState.line, image)
  /\ ~proofState.ready
  /\ draftStore[currentNodeId][selectedAnswerKey] = proofState


\* A whole number of pixels.
WholePx(v) == v % Scale = 0

\* C28: the origin of every patch sample, in the proof state and in the
\* stored drafts, is a whole pixel coordinate on both axes, for every focus
\* point and every size the controller passes to samplePatch, also the sizes
\* that the clamp of handlePatchSizeChange produces from the lower limit
\* 0.2 * min(W, H) when min(W, H) is not a multiple of 5.
OriginIsWholePixel ==
  /\ proofState.patchSample # Null
       => /\ WholePx(proofState.patchSample.origin.x)
          /\ WholePx(proofState.patchSample.origin.y)
  /\ \A n \in DOMAIN draftStore : \A k \in DOMAIN draftStore[n] :
       draftStore[n][k].patchSample # Null
         => /\ WholePx(draftStore[n][k].patchSample.origin.x)
            /\ WholePx(draftStore[n][k].patchSample.origin.y)


\* The nodes an answer with this key of this node leads to.
NextNodes(nodeId, key) == { a.next : a \in AnswersOf(nodeId, key) }

\* C29: in every reachable state every history entry names a question node
\* and a non-null key of one of its answers; each entry's node is the node
\* the previous entry's answer leads to; the first entry's node is the
\* tree's start node; and the current node is the node the last entry's
\* answer leads to, or the start node when the history is empty.
HistoryIsPath ==
  /\ \A i \in 1..Len(history) :
       /\ history[i].selectedAnswerKey # NullKey
       /\ history[i].nodeId \in NodeIds
       /\ IsQuestion(decisionTree.nodes[history[i].nodeId])
       /\ AnswersOf(history[i].nodeId, history[i].selectedAnswerKey) # {}
  /\ \A i \in 1..(Len(history) - 1) :
       NextNodes(history[i].nodeId, history[i].selectedAnswerKey)
         = {history[i + 1].nodeId}
  /\ Len(history) > 0 => history[1].nodeId = decisionTree.start
  /\ IF Len(history) = 0
     THEN currentNodeId = decisionTree.start
     ELSE NextNodes(Last(history).nodeId, Last(history).selectedAnswerKey)
            = {currentNodeId}

\* At the glide leaf after both questions were answered, the first with its
\* rotation answer after a center was picked: the history is the path from
\* the start node to the leaf.
HistoryIsPathWitness ==
  /\ currentNodeId = "leafG"
  /\ history = << [nodeId |-> "q1", selectedAnswerKey |-> "yes"],
                  [nodeId |-> "q2", selectedAnswerKey |-> "glide"] >>
  /\ selectedAnswerKey = NullKey


\* The geometric input of a proof state: the center of a rotation, the line
\* of a mirror or a glide.
GeometricInput(p) == IF p.type = "rotation" THEN p.center ELSE p.line

\* A proof state of a geometric type holds its input, patch sample, before
\* and after all together or not at all; before is the patch sample's data;
\* and a ready state holds them.
Coherent(p) ==
  IsGeometric(p)
    => /\ \/ /\ GeometricInput(p) = Null /\ p.patchSample = Null
             /\ p.before = Null /\ p.after = Null
          \/ /\ GeometricInput(p) # Null /\ p.patchSample # Null
             /\ p.before # Null /\ p.after # Null
       /\ p.patchSample # Null => p.before = p.patchSample.data
       /\ p.ready => (p.before # Null /\ p.after # Null /\ p.patchSample # Null
                        /\ GeometricInput(p) # Null)

\* C30: every reachable proof state and every stored draft of type rotation,
\* mirror or glide holds center or line, patchSample, before and after either
\* all null or all non-null, with before the patch sample's own data, and
\* holds them all when it is ready; so every answer with a geometric proof
\* in the history was confirmed with a computed before and after, which its
\* draft still holds.
ProofStateCoherent ==
  /\ Coherent(proofState)
  /\ \A n \in DOMAIN draftStore : \A k \in DOMAIN draftStore[n] :
       Coherent(draftStore[n][k])
  /\ \A i \in 1..Len(history) :
       LET d == draftStore[history[i].nodeId][history[i].selectedAnswerKey]
       IN  IsGeometric(d) => (d.ready /\ d.before # Null /\ d.after # Null)

\* At the second question after the rotation answer of the first was
\* confirmed with a picked center, with the glide answer selected, a line
\* drawn in progress and the mirror answer's untouched draft in the store:
\* a confirmed, an unready computed and an empty geometric state together.
ProofStateCoherentWitness ==
  /\ currentNodeId = "q2"
  /\ history = << [nodeId |-> "q1", selectedAnswerKey |-> "yes"] >>
  /\ draftStore["q1"]["yes"].ready
  /\ draftStore["q1"]["yes"].after # Null
  /\ selectedAnswerKey = "glide"
  /\ ~proofState.ready
  /\ proofState.line # Null
  /\ proofState.before = proofState.patchSample.data
  /\ "mirror" \in DOMAIN draftStore["q2"]
  /\ draftStore["q2"]["mirror"].line = Null
  /\ draftStore["q2"]["mirror"].after = Null


\* The patch sample of a proof state is anchored at a focus point: origin +
\* relativeCenter is the focus, and its size is min(patchSize, W, H).
AnchoredAt(p, focus, img) ==
  /\ p.patchSample.origin.x + p.patchSample.relativeCenter.x = focus.x
  /\ p.patchSample.origin.y + p.patchSample.relativeCenter.y = focus.y
  /\ p.patchSample.size = Min2(p.patchSize, Min2(Px(img.width), Px(img.height)))

\* C31: in every reachable rotation state with a center,
\* patchSample.origin + patchSample.relativeCenter is the center, and in
\* every mirror or glide state with a line it is the line's midpoint, and
\* patchSample.size = min(patchSize, W, H) for the loaded image, also when
\* the crop was clamped at an edge of the image.
PivotConsistent ==
  /\ (proofState.type = "rotation" /\ proofState.center # Null)
       => AnchoredAt(proofState, proofState.center, image)
  /\ (proofState.type \in {"mirror", "glide"} /\ proofState.line # Null)
       => AnchoredAt(proofState, midPoint(proofState.line), image)


\* The images an upload can replace the loaded one with.
Uploads == Images \cup {OtherImage}

\* C33: after a new image has finished loading, selecting an answer whose
\* proof type is rotation, mirror or glide (at the first question, or at the
\* second after the first was answered without a proof) gives a proof state
\* with ready false and no before and after buffers, so that confirmAnswer
\* does nothing: no proof computed on the image loaded before is used.
NoStaleProof ==
  \A img \in Uploads :
    img.element # image.element
      => LET loaded == Settle(imageOnload(St, img))
             second == Settle(handleSelectAnswer(loaded, "no"))
         IN  \A from \in {loaded, second}, k \in AnswerKeys :
               LET r == Settle(handleSelectAnswer(from, k))
               IN  (r.selectedAnswerKey = k /\ IsGeometric(r.proofState))
                     => /\ ~r.proofState.ready
                        /\ r.proofState.before = Null
                        /\ r.proofState.after = Null
                        /\ Settle(handleConfirmAnswer(r)) = r


\* The current node is a leaf of the tree.
AtLeaf == currentNodeId \in NodeIds /\ ~IsQuestion(currentNode(St))

\* No answer selected means a proof state of type none; an answer selected
\* means an image is loaded, the current node is a question and the key is
\* one of its answers; at a leaf no answer is selected.
SelectionCoherent ==
  /\ selectedAnswerKey = NullKey => proofState.type = "none"
  /\ selectedAnswerKey # NullKey
       => /\ imageReady(St)
          /\ IsQuestion(currentNode(St))
          /\ AnswersOf(currentNodeId, selectedAnswerKey) # {}
  /\ AtLeaf => selectedAnswerKey = NullKey

\* At a leaf selectAnswer, confirmAnswer, reset and the proof mutations that
\* take a point, a line, a glide distance or a repeat count change nothing.
LeafInputsNoOp ==
  AtLeaf
    => /\ \A k \in AnswerKeys : Settle(handleSelectAnswer(St, k)) = St
       /\ Settle(handleConfirmAnswer(St)) = St
       /\ Settle(handleResetProof(St)) = St
       /\ \A p \in Points : Settle(handleRotationPick(St, p)) = St
       /\ \A l \in Lines, kind \in {"mirror", "glide"}, isFinal \in BOOLEAN :
            Settle(captureLine(St, l, kind, isFinal)) = St
       /\ \A v \in GlideValues \cup ProofGlideValues :
            Settle(handleGlideDistanceChange(St, v)) = St
       /\ \A n \in RepeatValues : Settle(handleRotationRepeatChange(St, n)) = St

\* C32 as stated: the selection is coherent in every reachable state, and at
\* a leaf selectAnswer, confirmAnswer and every proof mutation, resizePatch
\* among them, change nothing.
LeafIsInert ==
  /\ SelectionCoherent
  /\ LeafInputsNoOp
  /\ AtLeaf => \A v \in PatchSizes \cup ProofSizes :
                 Settle(handlePatchSizeChange(St, v)) = St

\* C32: the selection is coherent in every reachable state; at a leaf
\* selectAnswer, confirmAnswer, reset and the proof mutations with a point, a
\* line, a distance or a repeat count change nothing, and resizePatch stores
\* the clamped size as patchSize of the none state and changes nothing else.
LeafKeepsSelection ==
  /\ SelectionCoherent
  /\ LeafInputsNoOp
  /\ AtLeaf => \A v \in PatchSizes \cup ProofSizes :
                 LET r == Settle(handlePatchSizeChange(St, v))
                     limits == patchSizeLimits(image)
                 IN  /\ r.proofState.patchSize = Min2(Max2(v, limits.min), limits.max)
                     /\ [r EXCEPT !.proofState.patchSize = proofState.patchSize] = St

\* At the glide leaf after both questions were answered, the patch-size
\* handler has run: the none state holds the lower limit as patchSize, and no
\* answer is selected.
LeafKeepsSelectionWitness ==
  /\ currentNodeId = "leafG"
  /\ Len(history) = 2
  /\ selectedAnswerKey = NullKey
  /\ proofState.type = "none"
  /\ proofState.patchSize = Px(40)


(***************************************************************************)
(* components/ImagePane.tsx: the pointer handlers                          *)
(***************************************************************************)

HANDLE_HIT_RADIUS == 14

LINE_HIT_THRESHOLD == 12

CENTER_HIT_RADIUS == 14

Abs(v) == IF v < 0 THEN -v ELSE v

\* Math.hypot(dx, dy) <= r, and the same with >, for dx, dy in tenths of a
\* pixel and r in pixels; the stage is shown at scale 1 (an image that fits
\* its container).
HypotAtMost(dx, dy, r) == dx * dx + dy * dy <= Px(r) * Px(r)

\* a * a <= t * t * n for a >= 0, computed through the quotient of a by t so
\* that no product leaves the range of the integers.
SquareAtMost(a, t, n) ==
  LET q == a \div t
      f == a % t
  IN  IF q * q > n THEN FALSE
      ELSE IF (q + 1) * (q + 1) <= n THEN TRUE
      ELSE 2 * q * f * t + f * f <= t * t * (n - q * q)

\* distanceToLine(point, line, scale) <= r: the distance to the nearest point
\* of the segment, which is an end point when the projection falls outside
\* it or the line has no length.
distanceToLineAtMost(point, line, r) ==
  LET A == point.x - line.x1
      B == point.y - line.y1
      C == line.x2 - line.x1
      D == line.y2 - line.y1
      dot == A * C + B * D
      lenSq == C * C + D * D
  IN  IF lenSq = 0 \/ dot < 0 THEN HypotAtMost(A, B, r)
      ELSE IF dot > lenSq
        THEN HypotAtMost(point.x - line.x2, point.y - line.y2, r)
      ELSE SquareAtMost(Abs(A * D - B * C), Px(r), lenSq)

\* lengthOf(line) > px
lengthOfExceeds(line, px) ==
  LET dx == line.x2 - line.x1
      dy == line.y2 - line.y1
  IN  line # Null /\ dx * dx + dy * dy > Px(px) * Px(px)

\* The refs of ImagePane between two pointer gestures.
IdlePane ==
  [isDrawing |-> FALSE, draftLine |-> Null, editingHandle |-> "null",
   editingLineKind |-> "null", rotationDrag |-> FALSE, lineDrag |-> Null,
   unitCellDrag |-> "null"]

\* proofInteractionsEnabled, the interactionsEnabled prop.
proofInteractionsEnabled(s) ==
  /\ imageReady(s)
  /\ s.selectedAnswerKey # NullKey
  /\ ~("type" \in DOMAIN currentNode(s) /\ currentNode(s).type = "leaf")

\* showUnitCellGuides, also the unitCellEditable prop.
showUnitCellGuides(s) ==
  IsQuestion(currentNode(s)) /\ currentNode(s).needsUnitCell

\* hitCorner: the pointer is within HANDLE_HIT_RADIUS of a corner of the unit
\* cell; the corner is at (x * width, y * height), compared in hundredths of
\* a pixel.
hitCorner(s, corner, coords) ==
  LET dx == s.unitCell[corner].x * s.image.width - 10 * coords.x
      dy == s.unitCell[corner].y * s.image.height - 10 * coords.y
  IN  dx * dx + dy * dy <= (100 * HANDLE_HIT_RADIUS) * (100 * HANDLE_HIT_RADIUS)

\* imageToNormalized: a fraction of the image's width and height, clamped to
\* [0,1], in hundredths (rounded down to a hundredth).
imageToNormalized(s, coords) ==
  [x |-> Clamp01((coords.x * 10) \div Max2(1, s.image.width)),
   y |-> Clamp01((coords.y * 10) \div Max2(1, s.image.height))]

\* A pane and the App it reports to: w.pane are the refs, w.app the state of
\* App after the callbacks of a handler and the effects that follow them.
handleMouseDown(w, coords) ==
  LET s == w.app
      p == s.proofState
      corners == { c \in {"A", "B", "C", "D"} : hitCorner(s, c, coords) }
      first == CHOOSE c \in corners :
                 \A d \in corners : <<c, d>> \in
                   { <<"A", "A">>, <<"A", "B">>, <<"A", "C">>, <<"A", "D">>,
                     <<"B", "B">>, <<"B", "C">>, <<"B", "D">>,
                     <<"C", "C">>, <<"C", "D">>, <<"D", "D">> }
      currentLine == IF p.type \in {"mirror", "glide"} THEN p.line ELSE Null
      startHit == HypotAtMost(coords.x - currentLine.x1, coords.y - currentLine.y1,
                              HANDLE_HIT_RADIUS)
      endHit == HypotAtMost(coords.x - currentLine.x2, coords.y - currentLine.y2,
                            HANDLE_HIT_RADIUS)
  IN  IF ~proofInteractionsEnabled(s) THEN w
      ELSE IF showUnitCellGuides(s) /\ corners # {}
        THEN [w EXCEPT !.pane.unitCellDrag = first]
      ELSE IF p.type = "rotation" /\ p.center # Null
              /\ HypotAtMost(coords.x - p.center.x, coords.y - p.center.y,
                             CENTER_HIT_RADIUS)
        THEN [pane |-> [w.pane EXCEPT !.rotationDrag = TRUE],
              app |-> Settle(handleRotationPick(s, coords))]
      ELSE IF currentLine # Null /\ (startHit \/ endHit)
        THEN [w EXCEPT !.pane.editingHandle = IF startHit THEN "start" ELSE "end",
                       !.pane.editingLineKind = p.type,
                       !.pane.draftLine = currentLine]
      ELSE IF currentLine # Null
              /\ distanceToLineAtMost(coords, currentLine, LINE_HIT_THRESHOLD)
        THEN [w EXCEPT !.pane.lineDrag =
                         [lastX |-> coords.x, lastY |-> coords.y, kind |-> p.type],
                       !.pane.draftLine = currentLine]
      ELSE IF p.type \notin {"mirror", "glide"} THEN w
      ELSE [w EXCEPT !.pane.isDrawing = TRUE,
                     !.pane.draftLine = [x1 |-> coords.x, y1 |-> coords.y,
                                         x2 |-> coords.x, y2 |-> coords.y]]

handleMove(w, coords) ==
  LET s == w.app
      pane == w.pane
      prevLine == pane.draftLine
      dx == coords.x - pane.lineDrag.lastX
      dy == coords.y - pane.lineDrag.lastY
      dragged == [x1 |-> prevLine.x1 + dx, y1 |-> prevLine.y1 + dy,
                  x2 |-> prevLine.x2 + dx, y2 |-> prevLine.y2 + dy]
      edited == IF pane.editingHandle = "start"
                THEN [prevLine EXCEPT !.x1 = coords.x, !.y1 = coords.y]
                ELSE [prevLine EXCEPT !.x2 = coords.x, !.y2 = coords.y]
      drawn == [prevLine EXCEPT !.x2 = coords.x, !.y2 = coords.y]
  IN  IF pane.unitCellDrag # "null" /\ showUnitCellGuides(s)
        THEN [w EXCEPT !.app = Settle(handleUnitCellChange(s,
                 [s.unitCell EXCEPT ![pane.unitCellDrag] = imageToNormalized(s, coords)]))]
      ELSE IF pane.lineDrag # Null /\ prevLine # Null
        THEN [pane |-> [pane EXCEPT !.draftLine = dragged,
                                    !.lineDrag.lastX = coords.x,
                                    !.lineDrag.lastY = coords.y],
              app |-> Settle(handleDraftLine(s, dragged, pane.lineDrag.kind))]
      ELSE IF pane.rotationDrag
        THEN [w EXCEPT !.app = Settle(handleRotationPick(s, coords))]
      ELSE IF pane.editingHandle # "null" /\ prevLine # Null
        THEN [pane |-> [pane EXCEPT !.draftLine = edited],
              app |-> IF pane.editingLineKind # "null"
                      THEN Settle(handleDraftLine(s, edited, pane.editingLineKind))
                      ELSE s]
      ELSE IF ~pane.isDrawing THEN w
      ELSE IF prevLine = Null THEN w
      ELSE [pane |-> [pane EXCEPT !.draftLine = drawn],
            app |-> IF s.proofState.type \in {"mirror", "glide"}
                    THEN Settle(handleDraftLine(s, drawn, s.proofState.type))
                    ELSE s]

handleUp(w) ==
  LET s == w.app
      pane == w.pane
      finalLine == pane.draftLine
      commit(kind) == IF kind = "mirror" THEN Settle(handleMirrorLine(s, finalLine))
                      ELSE IF kind = "glide" THEN Settle(handleGlideLine(s, finalLine))
                      ELSE s
  IN  IF pane.unitCellDrag # "null" THEN [w EXCEPT !.pane.unitCellDrag = "null"]
      ELSE IF pane.rotationDrag THEN [w EXCEPT !.pane.rotationDrag = FALSE]
      ELSE IF pane.lineDrag # Null /\ finalLine # Null
        THEN [pane |-> [pane EXCEPT !.lineDrag = Null, !.draftLine = Null],
              app |-> IF pane.lineDrag.kind = "mirror" THEN commit("mirror")
                      ELSE commit("glide")]
      ELSE IF pane.editingHandle # "null" /\ finalLine # Null
        THEN [pane |-> [pane EXCEPT !.editingHandle = "null",
                                    !.editingLineKind = "null",
                                    !.draftLine = Null],
              app |-> commit(pane.editingLineKind)]
      ELSE IF ~pane.isDrawing THEN w
      ELSE [pane |-> [pane EXCEPT !.isDrawing = FALSE, !.draftLine = Null],
            app |-> IF finalLine # Null /\ lengthOfExceeds(finalLine, 8)
                    THEN commit(s.proofState.type)
                    ELSE s]


\* Pointer positions of a gesture on the 300 x 200 image: next to the end of
\* the horizontal line of Lines, next to its start, away from both lines and
\* from the unit cell's corners, 3 px further, and on the horizontal line.
PanePoints ==
  { [x |-> Px(205), y |-> Px(100)], [x |-> Px(103), y |-> Px(100)],
    [x |-> Px(150), y |-> Px(30)], [x |-> Px(153), y |-> Px(30)],
    [x |-> Px(150), y |-> Px(105)] }

\* The states of App during and after a gesture: mouse-down, one or two
\* mouse-moves, mouse-up, from a pane at rest.
GestureStates(s, down, m1, m2) ==
  LET w1 == handleMouseDown([pane |-> IdlePane, app |-> s], down)
      w2 == handleMove(w1, m1)
      w3 == handleMove(w2, m2)
  IN  { w1.app, w2.app, handleUp(w2).app, w3.app, handleUp(w3).app }

\* A ready mirror or glide state holds a line longer than 8 pixels.
ReadyLineIsLong(p) ==
  (p.type \in {"mirror", "glide"} /\ p.ready)
    => (p.line # Null /\ lengthOfExceeds(p.line, 8))

\* C34: every ready mirror or glide proof state holds a line longer than 8
\* image pixels, during and after every gesture of mouse-down, mouse-moves
\* and mouse-up on the image pane, whether the gesture draws a new line,
\* drags an end point of the line or drags the whole line.
MinimumAxisLength ==
  /\ ReadyLineIsLong(proofState)
  /\ \A down \in PanePoints, m1 \in PanePoints, m2 \in PanePoints :
       \A s \in GestureStates(St, down, m1, m2) : ReadyLineIsLong(s.proofState)

====
